---- MODULE Spec2Model ----
(***************************************************************************)
(* Shift check-in bot (src/app): the relational store, the check-in        *)
(* acceptance handler, the reminder job and the daily aggregation job.     *)
(*                                                                         *)
(* Time is counted in whole hours since the epoch of the model; a local    *)
(* date is a day number and a time of day is an hour 0..23.  Table rows    *)
(* are kept in insertion order, which is the order an unordered SELECT     *)
(* returns them in.                                                        *)
(***************************************************************************)
EXTENDS Integers, Sequences, FiniteSets, TLC

\* ---------------------------------------------------------------- bounds
MaxNow == 24
StartWeekday == 4
MaxMemberships == 3
MaxAttempts == 4

\* ------------------------------------------------------------- universes
Users == {"u1", "u2"}
Chats == {"c1", "c2"}
Procs == {1, 2}
Runs == {1, 2}
ObservedHours == {0, 7, 17}

MORNING == "MORNING"
EVENING == "EVENING"
CheckinType == {MORNING, EVENING}

OPERATOR == "OPERATOR"
MANAGER == "MANAGER"
RoleEnum == {OPERATOR, MANAGER}

NoChat == "none"
NoRow == [none |-> TRUE]
NoData == [empty |-> TRUE]

\* config.py: timezone = "Europe/Sofia" (UTC+2, daylight saving left out),
\* scheduler_timezone = "UTC"
ConfigTimezone == 2
SchedulerTimezone == 0

\* bot.py / settings.py / checkins.py: the default windows
DefaultMorningStart == 6
DefaultMorningEnd == 11
DefaultEveningStart == 16
DefaultEveningEnd == 23

\* scheduler.py: CronTrigger(hour=0, minute=10)
AggregateCronHour == 0

VARIABLES
    now,          \* UTC wall clock, in hours
    chats,        \* table chats: Seq of [chat, timezone]
    memberships,  \* table memberships: Seq of [user, chat, role, authorized]
    settings,     \* table settings: Seq of [chat, morning_start, ...]
    checkins,     \* table checkins: Seq of [user, chat, type, checkin_date]
    daily_stats,  \* table daily_stats: Seq of DailyStat rows
    fsm,          \* FSM data of each user's private chat
    cpc,          \* confirm_checkin invocation p: position in the handler
    cloc,         \* confirm_checkin invocation p: its locals
    answer,       \* what the confirm_checkin that returned last told its user
    started,      \* process life cycle: "down", "scheduler", "polling"
    apc,          \* aggregation job instance r: position
    aloc,         \* aggregation job instance r: its locals and session
    sent,         \* reminders dispatched by the last reminder job
    statInputs,   \* history: what each DailyStat row was last computed from
    rpc,          \* reminder job: position ("idle", "chats", "send")
    rloc,         \* reminder job: its locals, the send in progress, the log
    metas,        \* wishlist store: chat -> ping schedule (or NoRow)
    ppc,          \* ping job: position ("idle", "chats")
    ploc,         \* ping job: now of the tick, the due metas, the position
    summaries,    \* wishlist: send_message calls made for a summary, per chat
    wishes,       \* wishlist store, table wishes: set of Wish rows
    chatmeta,     \* wishlist store, table chats: chat_id -> ChatMeta row
    ret,          \* wishlist store: the call made last and what it returned
    authfsm,      \* FSM state and authorization data of each user's private chat
    picked,       \* history: the auth:capture callback handled last
    spc,          \* /settings invocation p: position in show_settings
    sloc,         \* /settings invocation p: the chat it ensures a row for
    bpc,          \* on_startup of bot process b: position
    draft,        \* wishlist bot: user_data[DRAFT_KEY] of each user (or NoRow)
    conv,         \* wishlist bot: ADD_CONV_HANDLER state per (chat, user)
    previews      \* wishlist bot: (chat, user) pairs that got a draft keyboard

remindVars == <<rpc, rloc>>
storeVars == <<wishes, chatmeta, ret>>
wishVars == <<metas, ppc, ploc, summaries, storeVars>>
ensureVars == <<spc, sloc, bpc>>
addVars == <<draft, conv, previews>>
flowVars == <<authfsm, picked, ensureVars, addVars>>

vars == <<now, chats, memberships, settings, checkins, daily_stats, fsm,
          cpc, cloc, answer, started, apc, aloc, sent, statInputs,
          remindVars, wishVars, flowVars>>

\* ---------------------------------------------------------------- helpers
Range(s) == {s[i] : i \in DOMAIN s}

\* datetime.now(tz): local hour count of the UTC instant t
LocalNow(t, tz) == t + tz
\* .date()
DateOf(local) == local \div 24
\* .timetz()
TimeOf(local) == local % 24
\* .weekday(): Monday = 0 ... Sunday = 6
WeekdayOf(local) == (StartWeekday + DateOf(local)) % 7

\* --------------------------------------------------------------- queries
ChatIds == {chats[i].chat : i \in DOMAIN chats}
ChatRow(c) == CHOOSE r \in Range(chats) : r.chat = c

\* select(Membership).where(chat_id == c, user_id == u)
MembershipIndex(u, c) ==
    {i \in DOMAIN memberships : memberships[i].user = u /\ memberships[i].chat = c}

\* a users row exists once _persist_authorization has run for the user;
\* it always leaves a membership behind, and set_role adds memberships
\* only for users that have a row
UserExists(u) == \E i \in DOMAIN memberships : memberships[i].user = u

\* select(ChatSettings).where(ChatSettings.chat_id == c)
SettingsOf(c) == SelectSeq(settings, LAMBDA r : r.chat = c)

\* select(Checkin).where(user_id, chat_id, type, checkin_date)
CheckinsMatching(rows, key) ==
    SelectSeq(rows, LAMBDA r : r.user = key.user /\ r.chat = key.chat
                               /\ r.type = key.type
                               /\ r.checkin_date = key.checkin_date)

\* ----------------------------------------------------- storage: checkins
\* INSERT without uq_checkins_user_chat_type_date
InsertCheckinNoConstraint(rows, row) ==
    [ok |-> TRUE, rows |-> Append(rows, row)]

\* INSERT that overwrites silently on a conflict
InsertCheckinOverwrite(rows, row) ==
    IF CheckinsMatching(rows, row) # <<>>
    THEN [ok |-> TRUE, rows |-> rows]
    ELSE [ok |-> TRUE, rows |-> Append(rows, row)]

\* INSERT INTO checkins under uq_checkins_user_chat_type_date: a row with
\* the same (user_id, chat_id, type, checkin_date) makes the statement fail
\* with IntegrityError and the table is left as it was
InsertCheckin(rows, row) ==
    IF CheckinsMatching(rows, row) # <<>>
    THEN [ok |-> FALSE, rows |-> rows]
    ELSE [ok |-> TRUE, rows |-> Append(rows, row)]

\* ------------------------------------------------------------ idle values
IdleRun == [todo |-> <<>>, pending |-> <<>>]
IdleConfirm == [user |-> "u1", chat |-> NoChat, type |-> MORNING, checkin_date |-> 0]

IdleRemind == [todo |-> <<>>, window |-> "unset", msg |-> NoRow,
               attempts |-> 0, log |-> {}]
IdlePing == [now |-> 0, metas |-> <<>>, i |-> 1, step |-> 1, log |-> {}]

\* what a call of the wishlist store returned, before any call
NoCall == [op |-> "none"]

\* the wishlist database after configure_engine on a new file
EmptyStore ==
    /\ wishes = {}
    /\ chatmeta = [c \in Chats |-> NoRow]
    /\ ret = NoCall

\* conv value of a (chat, user) key that is absent or was set to END
END == "END"
NoAnswer == -1

\* FSM of a private chat in which /start was never sent
NoAuth == [state |-> "none", target_chat_id |-> NoChat,
           captcha_answer |-> NoAnswer]

\* no authorization dialogue, no /settings handler or on_startup in
\* flight, no add-flow draft
QuietFlows ==
    /\ authfsm = [u \in Users |-> NoAuth]
    /\ picked = NoRow
    /\ spc = [p \in Procs |-> "idle"]
    /\ sloc = [p \in Procs |-> NoChat]
    /\ bpc = [b \in Runs |-> "idle"]
    /\ draft = [u \in Users |-> NoRow]
    /\ conv = [k \in Chats \X Users |-> END]
    /\ previews = {}

\* no reminder job and no ping job running, an empty wishlist store
QuietJobs ==
    /\ rpc = "idle"
    /\ rloc = IdleRemind
    /\ metas = [c \in Chats |-> NoRow]
    /\ ppc = "idle"
    /\ ploc = IdlePing
    /\ summaries = [c \in Chats |-> 0]
    /\ EmptyStore

\* ------------------------------------------------------------- the clock
\* time passes; the model looks at the system at the observed hours only
Tick ==
    /\ \E t \in (now + 1)..MaxNow :
          /\ t % 24 \in ObservedHours
          /\ now' = t
    /\ UNCHANGED <<flowVars, chats, memberships, settings, checkins, daily_stats, fsm,
                   cpc, cloc, answer, started, apc, aloc, sent, statInputs,
                   remindVars, wishVars>>

\* time passes up to one of the given instants; a handler or a job step
\* takes no time on this scale, so none is under way when the hour changes
Clock(instants) ==
    /\ rpc = "idle"
    /\ \A p \in Procs : cpc[p] = "idle"
    /\ \E t \in instants :
          /\ t > now
          /\ now' = t
    /\ UNCHANGED <<flowVars, chats, memberships, settings, checkins, daily_stats, fsm,
                   cpc, cloc, answer, started, apc, aloc, sent, statInputs,
                   remindVars, wishVars>>

\* ------------------------------------------------------ group.py / auth.py
ChatsWith(c) ==
    IF c \in ChatIds THEN chats
    ELSE Append(chats, [chat |-> c, timezone |-> ConfigTimezone])

\* handle_added: the bot is added to group c
HandleAdded(c) ==
    /\ started = "polling"
    /\ c \notin ChatIds
    /\ chats' = ChatsWith(c)
    /\ UNCHANGED <<flowVars, now, memberships, settings, checkins, daily_stats, fsm,
                   cpc, cloc, answer, started, apc, aloc, sent, statInputs,
                   remindVars, wishVars>>

\* /start with the deep link of chat c followed by a successful
\* receive_contact / validate_captcha / validate_invite:
\* _persist_authorization, then state.clear()
Authorize(u, c) ==
    /\ started = "polling"
    /\ \/ MembershipIndex(u, c) # {}
       \/ Len(memberships) < MaxMemberships
    /\ chats' = ChatsWith(c)
    /\ memberships' =
          IF MembershipIndex(u, c) = {}
          THEN Append(memberships, [user |-> u, chat |-> c,
                                    role |-> OPERATOR, authorized |-> TRUE])
          ELSE [i \in DOMAIN memberships |->
                  IF i \in MembershipIndex(u, c)
                  THEN [memberships[i] EXCEPT !.authorized = TRUE]
                  ELSE memberships[i]]
    /\ fsm' = [fsm EXCEPT ![u] = NoData]
    /\ UNCHANGED <<flowVars, now, settings, checkins, daily_stats,
                   cpc, cloc, answer, started, apc, aloc, sent, statInputs,
                   remindVars, wishVars>>

\* ---------------------------------------------------------------- admin.py
\* /setrole <u> <role> sent in group c by an administrator
SetRole(u, c, role) ==
    /\ started = "polling"
    /\ UserExists(u)
    /\ \/ MembershipIndex(u, c) # {}
       \/ Len(memberships) < MaxMemberships
    /\ chats' = ChatsWith(c)
    /\ memberships' =
          IF MembershipIndex(u, c) = {}
          THEN Append(memberships, [user |-> u, chat |-> c,
                                    role |-> role, authorized |-> FALSE])
          ELSE [i \in DOMAIN memberships |->
                  IF i \in MembershipIndex(u, c)
                  THEN [memberships[i] EXCEPT !.role = role]
                  ELSE memberships[i]]
    /\ UNCHANGED <<flowVars, now, settings, checkins, daily_stats, fsm,
                   cpc, cloc, answer, started, apc, aloc, sent, statInputs,
                   remindVars, wishVars>>

\* ------------------------------------------------- bot.py / settings.py
\* a settings row that takes the timezone of the configuration instead of
\* the one of the chat
DefaultSettingsConfigTimezone(c, tz) ==
    [chat |-> c,
     morning_start |-> DefaultMorningStart, morning_end |-> DefaultMorningEnd,
     evening_start |-> DefaultEveningStart, evening_end |-> DefaultEveningEnd,
     alerts_enabled |-> TRUE, include_weekends |-> TRUE,
     timezone |-> ConfigTimezone]

\* _ensure_chat_settings / on_startup: the row with the default windows
DefaultSettings(c, tz) ==
    [chat |-> c,
     morning_start |-> DefaultMorningStart, morning_end |-> DefaultMorningEnd,
     evening_start |-> DefaultEveningStart, evening_end |-> DefaultEveningEnd,
     alerts_enabled |-> TRUE, include_weekends |-> TRUE, timezone |-> tz]

\* on_startup, first statement: scheduler.start()
OnStartupScheduler ==
    /\ started = "down"
    /\ started' = "scheduler"
    /\ UNCHANGED <<flowVars, now, chats, memberships, settings, checkins, daily_stats,
                   fsm, cpc, cloc, answer, apc, aloc, sent, statInputs,
                   remindVars, wishVars>>

\* on_startup, lines 68-86: add the global default settings row
\* (chat_id = None) when there is none; polling starts afterwards
OnStartupDefaults ==
    /\ started = "scheduler"
    /\ settings' = IF SettingsOf(NoChat) = <<>>
                   THEN Append(settings, DefaultSettings(NoChat, ConfigTimezone))
                   ELSE settings
    /\ started' = "polling"
    /\ UNCHANGED <<flowVars, now, chats, memberships, checkins, daily_stats,
                   fsm, cpc, cloc, answer, apc, aloc, sent, statInputs,
                   remindVars, wishVars>>

\* the first row of select(Membership, Chat, ChatSettings) for user u
FirstMembership(u) == SelectSeq(memberships, LAMBDA m : m.user = u)

\* /settings by u, whose first membership is a MANAGER one of a chat
\* without a settings row: _ensure_chat_settings adds the row
ShowSettings(u) ==
    /\ started = "polling"
    /\ FirstMembership(u) # <<>>
    /\ LET m == FirstMembership(u)[1] IN
          /\ m.role = MANAGER
          /\ SettingsOf(m.chat) = <<>>
          /\ settings' = Append(settings,
                                DefaultSettings(m.chat, ChatRow(m.chat).timezone))
    /\ UNCHANGED <<flowVars, now, chats, memberships, checkins, daily_stats,
                   fsm, cpc, cloc, answer, started, apc, aloc, sent, statInputs,
                   remindVars, wishVars>>

\* the first (Membership, ChatSettings) pair of user u, as an index into
\* the settings table (0 when the join is empty)
FirstSettingsIndex(u) ==
    LET ms == SelectSeq(memberships, LAMBDA m : m.user = u /\ SettingsOf(m.chat) # <<>>)
    IN  IF ms = <<>> THEN 0
        ELSE IF ms[1].role # MANAGER THEN 0
        ELSE CHOOSE i \in DOMAIN settings :
                /\ settings[i].chat = ms[1].chat
                /\ \A j \in 1..(i - 1) : settings[j].chat # ms[1].chat

\* settings:toggle:<field> by manager u
ToggleSetting(u, field) ==
    /\ started = "polling"
    /\ FirstSettingsIndex(u) # 0
    /\ LET i == FirstSettingsIndex(u) IN
          settings' =
             IF field = "alerts"
             THEN [settings EXCEPT ![i].alerts_enabled = ~settings[i].alerts_enabled]
             ELSE [settings EXCEPT ![i].include_weekends = ~settings[i].include_weekends]
    /\ UNCHANGED <<flowVars, now, chats, memberships, checkins, daily_stats,
                   fsm, cpc, cloc, answer, started, apc, aloc, sent, statInputs,
                   remindVars, wishVars>>

\* -------------------------------------------------------------- checkins.py
StaleAfterMinutes == 2

\* a window test that always uses the hard-coded hours
IsWithinWindowHardCoded(settings_row, t, checkin_type) ==
    IF checkin_type = MORNING
    THEN 6 <= t /\ t <= 11
    ELSE 16 <= t /\ t <= 23

\* _is_within_window
IsWithinWindow(settings_row, t, checkin_type) ==
    LET morning_start == IF settings_row = NoRow THEN 6 ELSE settings_row.morning_start
        morning_end   == IF settings_row = NoRow THEN 11 ELSE settings_row.morning_end
        evening_start == IF settings_row = NoRow THEN 16 ELSE settings_row.evening_start
        evening_end   == IF settings_row = NoRow THEN 23 ELSE settings_row.evening_end
    IN  IF checkin_type = MORNING
        THEN morning_start <= t /\ t <= morning_end
        ELSE evening_start <= t /\ t <= evening_end

\* handle_photo: u sends a photo to the bot
HandlePhoto(u) ==
    /\ started = "polling"
    /\ fsm[u] # [received_at |-> now]
    /\ fsm' = [fsm EXCEPT ![u] = [received_at |-> now]]
    /\ UNCHANGED <<flowVars, now, chats, memberships, settings, checkins, daily_stats,
                   cpc, cloc, answer, started, apc, aloc, sent, statInputs,
                   remindVars, wishVars>>

\* the memberships of u whatever their authorized flag, newest first
AuthorizedMembershipsAnyMember(u) ==
    LET all == SelectSeq(memberships, LAMBDA m : m.user = u)
    IN  [i \in 1..Len(all) |-> all[Len(all) + 1 - i]]

\* the authorized memberships of u, in table order
AuthorizedMemberships(u) ==
    SelectSeq(memberships, LAMBDA m : m.user = u /\ m.authorized)

\* confirm_checkin up to the existence check (lines 52-101): the answer it
\* gives when it returns early, "insert" when it goes on to add the row
ConfirmDecision(u, checkin_type) ==
    IF fsm[u] = NoData THEN [answer |-> "send_photo"]
    ELSE IF (now - fsm[u].received_at) * 60 > StaleAfterMinutes
    THEN [answer |-> "photo_stale"]
    ELSE IF AuthorizedMemberships(u) = <<>> THEN [answer |-> "not_authorized"]
    ELSE
      LET membership == AuthorizedMemberships(u)[1]
          own == SettingsOf(membership.chat)
      IN  IF Len(own) > 1 THEN [answer |-> "multiple_results_error"]
          ELSE
            LET chat_settings == IF own = <<>> THEN NoRow ELSE own[1]
                tz == IF chat_settings = NoRow
                      THEN ChatRow(membership.chat).timezone
                      ELSE chat_settings.timezone
                now_dt == LocalNow(now, tz)
                key == [user |-> u, chat |-> membership.chat,
                        type |-> checkin_type, checkin_date |-> DateOf(now_dt)]
            IN  IF /\ chat_settings # NoRow
                   /\ ~chat_settings.include_weekends
                   /\ WeekdayOf(now_dt) >= 5
                THEN [answer |-> "not_required_today"]
                ELSE IF ~IsWithinWindow(chat_settings, TimeOf(now_dt), checkin_type)
                THEN [answer |-> "window_closed"]
                ELSE IF CheckinsMatching(checkins, key) # <<>>
                THEN [answer |-> "already_recorded", key |-> key]
                ELSE [answer |-> "insert", key |-> key]

\* confirm_checkin, lines 52-101, for the callback checkin:confirm:<type>
\* of user u handled as invocation p
ConfirmCheck(p, u, checkin_type) ==
    /\ started = "polling"
    /\ cpc[p] = "idle"
    /\ LET d == ConfirmDecision(u, checkin_type) IN
          /\ fsm' = IF d.answer = "photo_stale"
                    THEN [fsm EXCEPT ![u] = NoData] ELSE fsm
          /\ IF d.answer = "insert"
             THEN /\ cpc' = [cpc EXCEPT ![p] = "commit"]
                  /\ cloc' = [cloc EXCEPT ![p] = d.key]
                  /\ UNCHANGED answer
             ELSE /\ UNCHANGED <<cpc, cloc>>
                  /\ answer' = d.answer
    /\ UNCHANGED <<flowVars, now, chats, memberships, settings, checkins, daily_stats,
                   started, apc, aloc, sent, statInputs,
                   remindVars, wishVars>>

\* confirm_checkin, lines 102-113: session.add(Checkin(...)); commit().
\* An IntegrityError raised by the commit is not caught by the handler.
ConfirmCommit(p) ==
    /\ cpc[p] = "commit"
    /\ LET ins == InsertCheckin(checkins, cloc[p]) IN
          /\ checkins' = ins.rows
          /\ IF ins.ok
             THEN /\ cpc' = [cpc EXCEPT ![p] = "finish"]
                  /\ UNCHANGED <<cloc, answer>>
             ELSE /\ cpc' = [cpc EXCEPT ![p] = "idle"]
                  /\ cloc' = [cloc EXCEPT ![p] = IdleConfirm]
                  /\ answer' = "integrity_error"
    /\ UNCHANGED <<flowVars, now, chats, memberships, settings, daily_stats, fsm,
                   started, apc, aloc, sent, statInputs,
                   remindVars, wishVars>>

\* confirm_checkin, lines 114-116: state.clear(); "saved"
ConfirmFinish(p) ==
    /\ cpc[p] = "finish"
    /\ fsm' = [fsm EXCEPT ![cloc[p].user] = NoData]
    /\ cpc' = [cpc EXCEPT ![p] = "idle"]
    /\ cloc' = [cloc EXCEPT ![p] = IdleConfirm]
    /\ answer' = "saved"
    /\ UNCHANGED <<flowVars, now, chats, memberships, settings, checkins, daily_stats,
                   started, apc, aloc, sent, statInputs,
                   remindVars, wishVars>>

\* -------------------------------------------------------------- scheduler.py
\* a lookup that falls back to built-in defaults when no row is found
GetEffectiveSettingsBuiltIn(c) ==
    LET own == SettingsOf(c)
        global == SettingsOf(NoChat)
    IN  IF Len(own) > 1 THEN [status |-> "error"]
        ELSE IF Len(own) = 1 THEN [status |-> "row", row |-> own[1]]
        ELSE IF global # <<>> THEN [status |-> "row", row |-> global[1]]
        ELSE [status |-> "row", row |-> DefaultSettings(NoChat, ConfigTimezone)]

\* _get_effective_settings: the chat's own row, else the global default
\* row, else None; scalar_one_or_none raises MultipleResultsFound when the
\* chat has more than one row of its own
GetEffectiveSettings(c) ==
    LET own == SettingsOf(c)
        global == SettingsOf(NoChat)
    IN  IF Len(own) > 1 THEN [status |-> "error"]
        ELSE IF Len(own) = 1 THEN [status |-> "row", row |-> own[1]]
        ELSE IF global # <<>> THEN [status |-> "row", row |-> global[1]]
        ELSE [status |-> "none"]

\* a classifier that tries the evening window first
DetermineWindowEveningFirst(settings_row, t) ==
    IF settings_row.evening_start <= t /\ t <= settings_row.evening_end
    THEN EVENING
    ELSE IF settings_row.morning_start <= t /\ t <= settings_row.morning_end
    THEN MORNING
    ELSE "none"

\* _determine_window
DetermineWindow(settings_row, t) ==
    IF settings_row.morning_start <= t /\ t <= settings_row.morning_end
    THEN MORNING
    ELSE IF settings_row.evening_start <= t /\ t <= settings_row.evening_end
    THEN EVENING
    ELSE "none"

\* misses[k].append(v) on a defaultdict(list)
DictAppend(d, k, v) ==
    IF k \in DOMAIN d THEN [d EXCEPT ![k] = Append(@, v)]
    ELSE d @@ (k :> <<v>>)

EmptyDict == [k \in {} |-> <<>>]

RECURSIVE MissesLoopOneSet(_, _, _, _)
\* the loop testing both windows against the morning set
MissesLoopOneSet(total, morning_users, evening_users, misses) ==
    IF total = <<>> THEN misses
    ELSE
      LET membership == Head(total)
          m1 == IF membership.user \notin morning_users
                THEN DictAppend(misses, "morning", membership.user)
                ELSE misses
          m2 == IF membership.user \notin morning_users
                THEN DictAppend(m1, "evening", membership.user)
                ELSE m1
      IN  MissesLoopOneSet(Tail(total), morning_users, evening_users, m2)

RECURSIVE MissesLoop(_, _, _, _)
\* the loop of lines 126-130 over the memberships in total
MissesLoop(total, morning_users, evening_users, misses) ==
    IF total = <<>> THEN misses
    ELSE
      LET membership == Head(total)
          m1 == IF membership.user \notin morning_users
                THEN DictAppend(misses, "morning", membership.user)
                ELSE misses
          m2 == IF membership.user \notin evening_users
                THEN DictAppend(m1, "evening", membership.user)
                ELSE m1
      IN  MissesLoop(Tail(total), morning_users, evening_users, m2)

\* select(Membership).where(chat_id == c, role == OPERATOR), lines 109-114
AggregationRoster(c) ==
    SelectSeq(memberships, LAMBDA m : m.chat = c /\ m.role = OPERATOR)

\* select(Checkin.user_id, Checkin.type).where(chat_id == c, checkin_date == d)
CheckinsOn(c, d) ==
    SelectSeq(checkins, LAMBDA r : r.chat = c /\ r.checkin_date = d)

\* a payload whose morning count counts every check-in of the day
PayloadCountAll(c, target_date, total, rows) ==
    [chat |-> c,
     date |-> target_date,
     morning_cnt |-> Len(rows),
     evening_cnt |-> Len(SelectSeq(rows, LAMBDA r : r.type = EVENING)),
     total_operators |-> Len(total),
     misses |-> MissesLoop(total,
                           {r.user : r \in {x \in Range(rows) : x.type = MORNING}},
                           {r.user : r \in {x \in Range(rows) : x.type = EVENING}},
                           EmptyDict),
     created_at |-> now]

\* the payload of lines 121-145 computed from the roster and the check-ins
Payload(c, target_date, total, rows) ==
    [chat |-> c,
     date |-> target_date,
     morning_cnt |-> Len(SelectSeq(rows, LAMBDA r : r.type = MORNING)),
     evening_cnt |-> Len(SelectSeq(rows, LAMBDA r : r.type = EVENING)),
     total_operators |-> Len(total),
     misses |-> MissesLoop(total,
                           {r.user : r \in {x \in Range(rows) : x.type = MORNING}},
                           {r.user : r \in {x \in Range(rows) : x.type = EVENING}},
                           EmptyDict),
     created_at |-> now]

\* select(DailyStat).where(chat_id == c, date == d): indices of the rows
StatIndex(c, d) ==
    {i \in DOMAIN daily_stats : daily_stats[i].chat = c /\ daily_stats[i].date = d}

\* _aggregate_daily_stats, lines 96-98: the job of scheduler instance r
\* fires at 00:10 scheduler time and reads the chats
AggStart(r) ==
    /\ started # "down"
    /\ apc[r] = "idle"
    /\ TimeOf(LocalNow(now, SchedulerTimezone)) = AggregateCronHour
    /\ chats # <<>>
    /\ apc' = [apc EXCEPT ![r] = "chats"]
    /\ aloc' = [aloc EXCEPT ![r] = [todo |-> chats, pending |-> <<>>]]
    /\ UNCHANGED <<flowVars, now, chats, memberships, settings, checkins, daily_stats,
                   fsm, cpc, cloc, answer, started, sent, statInputs,
                   remindVars, wishVars>>

\* an upsert that never looks for the existing row
StagedWriteAlwaysInsert(ch) ==
    LET c == ch.chat
        target_date == DateOf(LocalNow(now, ch.timezone)) - 1
        eff == GetEffectiveSettings(c)
        total == AggregationRoster(c)
        rows == CheckinsOn(c, target_date)
    IN  IF eff.status = "error" THEN [kind |-> "error"]
        ELSE IF eff.status = "none" THEN [kind |-> "skip"]
        ELSE [kind |-> "insert", index |-> 0,
              payload |-> Payload(c, target_date, total, rows),
              inputs |-> [roster |-> total, rows |-> rows]]

\* what _aggregate_for_chat stages in the session for chat row ch:
\* nothing, an insert, an update of the row it found, or an exception
StagedWrite(ch) ==
    LET c == ch.chat
        target_date == DateOf(LocalNow(now, ch.timezone)) - 1
        eff == GetEffectiveSettings(c)
        total == AggregationRoster(c)
        rows == CheckinsOn(c, target_date)
        existing == StatIndex(c, target_date)
        payload == Payload(c, target_date, total, rows)
        inputs == [roster |-> total, rows |-> rows]
    IN  IF eff.status = "error" THEN [kind |-> "error"]
        ELSE IF eff.status = "none" THEN [kind |-> "skip"]
        ELSE IF Cardinality(existing) > 1 THEN [kind |-> "error"]
        ELSE IF existing # {}
        THEN [kind |-> "update", index |-> CHOOSE i \in existing : TRUE,
              payload |-> payload, inputs |-> inputs]
        ELSE [kind |-> "insert", index |-> 0,
              payload |-> payload, inputs |-> inputs]

\* the loop body of _aggregate_daily_stats for the next chat:
\* _aggregate_for_chat(session, chat, yesterday in the chat's timezone).
\* The session does not autoflush, so the lookup sees committed rows only.
\* A read of the step may fail; the exception, like the one
\* scalar_one_or_none raises, is caught nowhere: it leaves the loop and
\* the session is closed without the commit.
AggregateForChat(r) ==
    /\ apc[r] = "chats"
    /\ aloc[r].todo # <<>>
    /\ \E read_fails \in BOOLEAN :
          LET w == StagedWrite(Head(aloc[r].todo)) IN
          IF read_fails \/ w.kind = "error"
          THEN /\ apc' = [apc EXCEPT ![r] = "idle"]
               /\ aloc' = [aloc EXCEPT ![r] = IdleRun]
          ELSE /\ UNCHANGED apc
               /\ aloc' = [aloc EXCEPT ![r] =
                     [todo |-> Tail(aloc[r].todo),
                      pending |-> IF w.kind = "skip" THEN aloc[r].pending
                                  ELSE Append(aloc[r].pending, w)]]
    /\ UNCHANGED <<flowVars, now, chats, memberships, settings, checkins, daily_stats,
                   fsm, cpc, cloc, answer, started, sent, statInputs,
                   remindVars, wishVars>>

RECURSIVE Flush(_, _)
\* the flush of a session: staged inserts are appended, staged updates
\* overwrite the row they were read from
Flush(table, pending) ==
    IF pending = <<>> THEN table
    ELSE LET w == Head(pending) IN
         Flush(IF w.kind = "update"
               THEN [table EXCEPT ![w.index] = w.payload]
               ELSE Append(table, w.payload),
               Tail(pending))

RECURSIVE FlushInputs(_, _)
\* history of the flush: what each row was computed from, and whether the
\* write repeated the computation the row already held
FlushInputs(table, pending) ==
    IF pending = <<>> THEN table
    ELSE LET w == Head(pending)
             same == /\ w.kind = "update"
                     /\ table[w.index].roster = w.inputs.roster
                     /\ table[w.index].rows = w.inputs.rows
             entry == [roster |-> w.inputs.roster, rows |-> w.inputs.rows,
                       rerun |-> same]
         IN  FlushInputs(IF w.kind = "update"
                         THEN [table EXCEPT ![w.index] = entry]
                         ELSE Append(table, entry),
                         Tail(pending))

\* _aggregate_daily_stats, line 103: session.commit() after the last chat
AggCommit(r) ==
    /\ apc[r] = "chats"
    /\ aloc[r].todo = <<>>
    /\ daily_stats' = Flush(daily_stats, aloc[r].pending)
    /\ statInputs' = FlushInputs(statInputs, aloc[r].pending)
    /\ apc' = [apc EXCEPT ![r] = "idle"]
    /\ aloc' = [aloc EXCEPT ![r] = IdleRun]
    /\ UNCHANGED <<flowVars, now, chats, memberships, settings, checkins,
                   fsm, cpc, cloc, answer, started, sent,
                   remindVars, wishVars>>

\* a roster query without the authorized filter
MissingCheckinsAnyOperator(c, window, today) ==
    LET operators == SelectSeq(memberships,
                        LAMBDA m : m.chat = c /\ m.role = OPERATOR)
        done_ids == {r.user : r \in {x \in Range(checkins) :
                        x.chat = c /\ x.type = window /\ x.checkin_date = today}}
    IN  SelectSeq(operators, LAMBDA m : m.user \notin done_ids)

\* _notify_missing_checkins: the reminder for chat c and window, or none
MissingCheckins(c, window, today) ==
    LET operators == SelectSeq(memberships,
                        LAMBDA m : m.chat = c /\ m.role = OPERATOR /\ m.authorized)
        done_ids == {r.user : r \in {x \in Range(checkins) :
                        x.chat = c /\ x.type = window /\ x.checkin_date = today}}
    IN  SelectSeq(operators, LAMBDA m : m.user \notin done_ids)

RECURSIVE RemindLoop(_, _)
\* the loop of _remind_pending_checkins over the chats; an exception in
\* one chat ends the loop
RemindLoop(todo, out) ==
    IF todo = <<>> THEN out
    ELSE
      LET chat == Head(todo)
          now_local == LocalNow(now, chat.timezone)
          eff == GetEffectiveSettings(chat.chat)
      IN  IF eff.status = "error" THEN out
          ELSE IF eff.status = "none" THEN RemindLoop(Tail(todo), out)
          ELSE IF ~eff.row.include_weekends /\ WeekdayOf(now_local) >= 5
          THEN RemindLoop(Tail(todo), out)
          ELSE
            LET window == DetermineWindow(eff.row, TimeOf(now_local))
                missing == MissingCheckins(chat.chat, window, DateOf(now_local))
            IN  IF window = "none" \/ missing = <<>>
                THEN RemindLoop(Tail(todo), out)
                ELSE RemindLoop(Tail(todo),
                        out \cup {[chat |-> chat.chat, window |-> window,
                                   missing |-> [i \in DOMAIN missing |-> missing[i].user]]})

\* _remind_pending_checkins: one run of the 5-minute reminder job
RemindPendingCheckins ==
    /\ started # "down"
    /\ chats # <<>>
    /\ sent' = RemindLoop(chats, {})
    /\ UNCHANGED <<flowVars, now, chats, memberships, settings, checkins, daily_stats,
                   fsm, cpc, cloc, answer, started, apc, aloc, statInputs,
                   remindVars, wishVars>>

\* a loop body that takes the weekday from the UTC clock
RemindDecisionUtcWeekday(ch) ==
    LET now_local == LocalNow(now, ch.timezone)
        eff == GetEffectiveSettings(ch.chat)
    IN  IF eff.status = "error" THEN [kind |-> "error", window |-> "unset"]
        ELSE IF eff.status = "none" THEN [kind |-> "skip", window |-> "unset"]
        ELSE IF ~eff.row.include_weekends /\ WeekdayOf(now) >= 5
        THEN [kind |-> "skip", window |-> "unset"]
        ELSE
          LET window == DetermineWindow(eff.row, TimeOf(now_local))
              missing == MissingCheckins(ch.chat, window, DateOf(now_local))
          IN  IF window = "none" \/ missing = <<>>
              THEN [kind |-> "skip", window |-> window]
              ELSE [kind |-> "dispatch", window |-> window,
                    msg |-> [chat |-> ch.chat, window |-> window,
                             missing |-> [i \in DOMAIN missing |-> missing[i].user]]]

\* what the loop body of _remind_pending_checkins (lines 53-63) decides for
\* chat row ch: an exception, a skip (continue / return), or the call of
\* send_reminder with the missing operators
RemindDecision(ch) ==
    LET now_local == LocalNow(now, ch.timezone)
        eff == GetEffectiveSettings(ch.chat)
    IN  IF eff.status = "error" THEN [kind |-> "error", window |-> "unset"]
        ELSE IF eff.status = "none" THEN [kind |-> "skip", window |-> "unset"]
        ELSE IF ~eff.row.include_weekends /\ WeekdayOf(now_local) >= 5
        THEN [kind |-> "skip", window |-> "unset"]
        ELSE
          LET window == DetermineWindow(eff.row, TimeOf(now_local))
              missing == MissingCheckins(ch.chat, window, DateOf(now_local))
          IN  IF window = "none" \/ missing = <<>>
              THEN [kind |-> "skip", window |-> window]
              ELSE [kind |-> "dispatch", window |-> window,
                    msg |-> [chat |-> ch.chat, window |-> window,
                             missing |-> [i \in DOMAIN missing |-> missing[i].user]]]

\* _remind_pending_checkins, lines 49-51: the interval job fires, opens a
\* session and reads the chats (one instance of the job at a time)
RemindStart ==
    /\ started # "down"
    /\ rpc = "idle"
    /\ chats # <<>>
    /\ rpc' = "chats"
    /\ rloc' = [IdleRemind EXCEPT !.todo = chats]
    /\ sent' = {}
    /\ UNCHANGED <<flowVars, now, chats, memberships, settings, checkins, daily_stats,
                   fsm, cpc, cloc, answer, started, apc, aloc, statInputs,
                   wishVars>>

\* the loop body for the next chat, up to the call of _send_message.  A
\* read of the step may fail (the database connection, the load of
\* membership.user while send_reminder formats the names); nothing in the
\* job catches the exception, so it ends the job.
RemindForChat ==
    /\ rpc = "chats"
    /\ rloc.todo # <<>>
    /\ \E read_fails \in BOOLEAN :
          LET d == RemindDecision(Head(rloc.todo)) IN
          IF read_fails \/ d.kind = "error"
          THEN /\ rpc' = "idle"
               /\ rloc' = IdleRemind
               /\ UNCHANGED sent
          ELSE IF d.kind = "skip"
          THEN /\ rpc' = "chats"
               /\ rloc' = [rloc EXCEPT !.todo = Tail(rloc.todo),
                                       !.window = d.window]
               /\ UNCHANGED sent
          ELSE /\ rpc' = "send"
               /\ rloc' = [rloc EXCEPT !.window = d.window, !.msg = d.msg,
                                       !.attempts = 0]
               /\ sent' = sent \cup {d.msg}
    /\ UNCHANGED <<flowVars, now, chats, memberships, settings, checkins, daily_stats,
                   fsm, cpc, cloc, answer, started, apc, aloc, statInputs,
                   wishVars>>

\* what bot.send_message can answer
TransportOutcomes == {"ok", "retry_after", "forbidden", "error"}

\* _send_message that lets TelegramForbiddenError out of the call
SendResultForbiddenRaises(outcome, attempts) ==
    IF outcome = "retry_after"
    THEN [again |-> TRUE, raised |-> FALSE,
          log |-> {"rate_limited"}]
    ELSE IF outcome = "forbidden"
    THEN [again |-> FALSE, raised |-> TRUE, log |-> {}]
    ELSE IF outcome = "error"
    THEN [again |-> FALSE, raised |-> FALSE,
          log |-> {"failed"}]
    ELSE [again |-> FALSE, raised |-> FALSE, log |-> {}]

\* _send_message, lines 38-55, after one bot.send_message that answered
\* outcome as attempt number attempts + 1: on TelegramRetryAfter it sleeps
\* and calls itself again, whatever the number of attempts made; the
\* other exceptions are logged and the call returns
SendResult(outcome, attempts) ==
    IF outcome = "retry_after"
    THEN [again |-> TRUE, raised |-> FALSE,
          log |-> {"rate_limited"}]
    ELSE IF outcome = "forbidden"
    THEN [again |-> FALSE, raised |-> FALSE,
          log |-> {"blocked"}]
    ELSE IF outcome = "error"
    THEN [again |-> FALSE, raised |-> FALSE,
          log |-> {"failed"}]
    ELSE [again |-> FALSE, raised |-> FALSE, log |-> {}]

\* one bot.send_message of the reminder being dispatched, and what
\* _send_message does with its answer; when the call returns, the loop of
\* _remind_pending_checkins goes on with the next chat
SendMessage ==
    /\ rpc = "send"
    /\ rloc.attempts < MaxAttempts
    /\ \E outcome \in TransportOutcomes :
          LET res == SendResult(outcome, rloc.attempts)
              entries == {[event |-> e, chat |-> rloc.msg.chat] : e \in res.log}
          IN  IF res.raised
              THEN /\ rpc' = "idle"
                   /\ rloc' = IdleRemind
              ELSE IF res.again
              THEN /\ rpc' = "send"
                   /\ rloc' = [rloc EXCEPT !.attempts = @ + 1,
                                           !.log = @ \cup entries]
              ELSE /\ rpc' = "chats"
                   /\ rloc' = [rloc EXCEPT !.attempts = @ + 1,
                                           !.log = @ \cup entries,
                                           !.todo = Tail(@)]
    /\ UNCHANGED <<flowVars, now, chats, memberships, settings, checkins, daily_stats,
                   fsm, cpc, cloc, answer, started, apc, aloc, sent, statInputs,
                   wishVars>>

\* _remind_pending_checkins: the loop is over, the session is closed
RemindEnd ==
    /\ rpc = "chats"
    /\ rloc.todo = <<>>
    /\ rpc' = "idle"
    /\ rloc' = IdleRemind
    /\ UNCHANGED <<flowVars, now, chats, memberships, settings, checkins, daily_stats,
                   fsm, cpc, cloc, answer, started, apc, aloc, sent, statInputs,
                   wishVars>>

\* ---------------------------------------------------------- specifications
GlobalDefaults == <<DefaultSettings(NoChat, ConfigTimezone)>>

\* The check-in flow on a running bot with an empty database: users
\* authorize in chat c1, send photos and tap the confirm buttons; two
\* confirm callbacks may be in flight at once.
InitCheckin ==
    /\ QuietFlows
    /\ now = 0
    /\ chats = <<>>
    /\ memberships = <<>>
    /\ settings = GlobalDefaults
    /\ checkins = <<>>
    /\ daily_stats = <<>>
    /\ fsm = [u \in Users |-> NoData]
    /\ cpc = [p \in Procs |-> "idle"]
    /\ cloc = [p \in Procs |-> IdleConfirm]
    /\ answer = "none"
    /\ started = "polling"
    /\ apc = [r \in Runs |-> "idle"]
    /\ aloc = [r \in Runs |-> IdleRun]
    /\ sent = {}
    /\ statInputs = <<>>
    /\ QuietJobs

NextCheckin ==
    \/ Tick
    \/ \E u \in Users : Authorize(u, "c1")
    \/ \E u \in Users : HandlePhoto(u)
    \/ \E p \in Procs, u \in Users, t \in CheckinType : ConfirmCheck(p, u, t)
    \/ \E p \in Procs : ConfirmCommit(p)
    \/ \E p \in Procs : ConfirmFinish(p)

SpecCheckin == InitCheckin /\ [][NextCheckin]_vars

Member(u, c, role, authorized) ==
    [user |-> u, chat |-> c, role |-> role, authorized |-> authorized]

\* memberships table after the authorizations of a working day
RosterScenarios ==
    { <<>>,
      <<Member("u1", "c1", OPERATOR, TRUE), Member("u2", "c1", OPERATOR, TRUE)>>,
      <<Member("u1", "c1", OPERATOR, TRUE), Member("u2", "c2", OPERATOR, TRUE)>> }

\* the check-ins confirm_checkin can have stored on day 0 for the
\* memberships ms: each user in the chat of the first authorized membership
CandidateCheckins(ms) ==
    LET chatOf(u) ==
            LET a == SelectSeq(ms, LAMBDA m : m.user = u /\ m.authorized)
            IN  IF a = <<>> THEN NoChat ELSE a[1].chat
        mk(u, t) == [user |-> u, chat |-> chatOf(u), type |-> t, checkin_date |-> 0]
    IN  SelectSeq(<<mk("u1", MORNING), mk("u2", MORNING),
                    mk("u1", EVENING), mk("u2", EVENING)>>,
                  LAMBDA k : k.chat # NoChat)

BothChats == <<[chat |-> "c1", timezone |-> ConfigTimezone],
               [chat |-> "c2", timezone |-> ConfigTimezone]>>

\* The evening of day 0 (17:00 UTC).  Either the bot is running on a
\* database that holds the day's authorizations and check-ins, or it is
\* about to start on a database that has no settings row yet: the one
\* scripts/seed.py fills, or the one the test fixture fills.
InitAggregate ==
    /\ QuietFlows
    /\ now = 17
    /\ daily_stats = <<>>
    /\ fsm = [u \in Users |-> NoData]
    /\ cpc = [p \in Procs |-> "idle"]
    /\ cloc = [p \in Procs |-> IdleConfirm]
    /\ answer = "none"
    /\ apc = [r \in Runs |-> "idle"]
    /\ aloc = [r \in Runs |-> IdleRun]
    /\ sent = {}
    /\ statInputs = <<>>
    /\ QuietJobs
    /\ \/ /\ started = "polling"
          /\ settings = GlobalDefaults
          /\ chats = BothChats
          /\ memberships \in RosterScenarios
          /\ \E S \in SUBSET Range(CandidateCheckins(memberships)) :
                checkins = SelectSeq(CandidateCheckins(memberships),
                                     LAMBDA k : k \in S)
       \/ /\ started = "down"
          /\ settings = <<>>
          /\ chats = <<[chat |-> "c1", timezone |-> ConfigTimezone]>>
          /\ \/ /\ memberships = <<Member("u1", "c1", MANAGER, TRUE)>>
                /\ checkins = <<>>
             \/ /\ memberships = <<Member("u1", "c1", OPERATOR, TRUE)>>
                /\ checkins = <<[user |-> "u1", chat |-> "c1",
                                 type |-> MORNING, checkin_date |-> 0]>>

\* one scheduler instance
NextAggregate ==
    \/ Tick
    \/ OnStartupScheduler
    \/ OnStartupDefaults
    \/ \E c \in Chats : HandleAdded(c)
    \/ \E u \in Users, role \in RoleEnum : SetRole(u, "c1", role)
    \/ \E u \in Users : ShowSettings(u)
    \/ AggStart(1)
    \/ AggregateForChat(1)
    \/ AggCommit(1)
    \/ RemindPendingCheckins

SpecAggregate == InitAggregate /\ [][NextAggregate]_vars

\* two scheduler instances on one database (two bot processes, as during
\* a rolling restart), both past on_startup
InitTwoSchedulers ==
    /\ InitAggregate
    /\ started = "polling"

NextTwoSchedulers ==
    \/ Tick
    \/ \E r \in Runs : AggStart(r)
    \/ \E r \in Runs : AggregateForChat(r)
    \/ \E r \in Runs : AggCommit(r)

SpecTwoSchedulers == InitTwoSchedulers /\ [][NextTwoSchedulers]_vars

\* memberships of a running bot: two operators of c1; an operator and a
\* manager of c1; an operator and a member set to OPERATOR by /setrole
\* who never authorized; operators of two chats
RemindRosters ==
    { <<Member("u1", "c1", OPERATOR, TRUE), Member("u2", "c1", OPERATOR, TRUE)>>,
      <<Member("u1", "c1", OPERATOR, TRUE), Member("u2", "c1", MANAGER, TRUE)>>,
      <<Member("u1", "c1", OPERATOR, TRUE), Member("u2", "c2", OPERATOR, TRUE),
        Member("u2", "c1", OPERATOR, FALSE)>>,
      <<Member("u2", "c2", OPERATOR, TRUE), Member("u1", "c1", OPERATOR, TRUE)>> }

\* the hours of day 0 the reminder flow is looked at: 07:00 and 17:00 UTC
RemindInstants == {7, 17}

\* The reminder job on a running bot, Friday 07:00 UTC: the chats c1 and
\* c2, nobody checked in yet, c1 with or without a settings row of its
\* own.  u1 sends photos and confirms; the transport answers as it likes.
InitRemind ==
    /\ QuietFlows
    /\ now = 7
    /\ chats = BothChats
    /\ settings \in {GlobalDefaults,
                      Append(GlobalDefaults, DefaultSettings("c1", ConfigTimezone))}
    /\ memberships \in RemindRosters
    /\ checkins = <<>>
    /\ daily_stats = <<>>
    /\ fsm = [u \in Users |-> NoData]
    /\ cpc = [p \in Procs |-> "idle"]
    /\ cloc = [p \in Procs |-> IdleConfirm]
    /\ answer = "none"
    /\ started = "polling"
    /\ apc = [r \in Runs |-> "idle"]
    /\ aloc = [r \in Runs |-> IdleRun]
    /\ sent = {}
    /\ statInputs = <<>>
    /\ QuietJobs

NextRemind ==
    \/ Clock(RemindInstants)
    \/ HandlePhoto("u1")
    \/ \E t \in CheckinType : ConfirmCheck(1, "u1", t)
    \/ ConfirmCommit(1)
    \/ ConfirmFinish(1)
    \/ RemindStart
    \/ RemindForChat
    \/ SendMessage
    \/ RemindEnd

SpecRemind == InitRemind /\ [][NextRemind]_vars

\* UTC instants from Friday to Monday: 07:00, 17:00 and 21:00 on day 0,
\* 01:00 and 07:00 on day 1, 21:00 on day 2, 01:00 on day 3
WeekendInstants == {7, 17, 21, 25, 31, 69, 73}

\* the zones the chats were created under (the TZ of the deployment)
ChatTimezones == {<<ConfigTimezone, ConfigTimezone>>, <<-8, ConfigTimezone>>,
                  <<9, ConfigTimezone>>}

\* The reminder job from Friday to Monday: u2 manages c1 and is an
\* operator of c2, u1 is an operator of c1, nobody checks in; the manager
\* opens /settings and toggles the weekend switch of c1.
InitWeekend ==
    /\ QuietFlows
    /\ now = 7
    /\ \E tz \in ChatTimezones :
          chats = <<[chat |-> "c1", timezone |-> tz[1]],
                    [chat |-> "c2", timezone |-> tz[2]]>>
    /\ settings = GlobalDefaults
    /\ memberships = <<Member("u2", "c1", MANAGER, TRUE),
                       Member("u1", "c1", OPERATOR, TRUE),
                       Member("u2", "c2", OPERATOR, TRUE)>>
    /\ checkins = <<>>
    /\ daily_stats = <<>>
    /\ fsm = [u \in Users |-> NoData]
    /\ cpc = [p \in Procs |-> "idle"]
    /\ cloc = [p \in Procs |-> IdleConfirm]
    /\ answer = "none"
    /\ started = "polling"
    /\ apc = [r \in Runs |-> "idle"]
    /\ aloc = [r \in Runs |-> IdleRun]
    /\ sent = {}
    /\ statInputs = <<>>
    /\ QuietJobs

NextWeekend ==
    \/ Clock(WeekendInstants)
    \/ \E u \in Users : ShowSettings(u)
    \/ \E u \in Users : ToggleSetting(u, "weekend")
    \/ RemindStart
    \/ RemindForChat
    \/ SendMessage
    \/ RemindEnd

SpecWeekend == InitWeekend /\ [][NextWeekend]_vars

\* a settings row of chat c with the given window hours
SettingsRow(c, tz, w) ==
    [DefaultSettings(c, tz) EXCEPT !.morning_start = w[1], !.morning_end = w[2],
                                   !.evening_start = w[3], !.evening_end = w[4]]

\* window hours a settings row can hold: the defaults, the row of
\* test_windows.py, two windows that overlap, a morning window that ends
\* before it starts
WindowConfigs == {<<6, 11, 16, 23>>, <<7, 9, 18, 21>>, <<6, 17, 16, 23>>,
                  <<12, 6, 16, 23>>}

\* the local hours next to the ends of the windows
BoundaryHours == {0, 5, 6, 7, 9, 10, 11, 12, 16, 17, 18, 21, 22, 23}

\* the UTC instants at which the chat's local hour is one of them
WindowInstants ==
    {t \in 0..MaxNow : (t + ConfigTimezone) % 24 \in BoundaryHours}

\* One chat and its operator u1 through the hours of a day: the chat has
\* no settings row of its own, or one with any of the window hours; u1
\* sends photos and confirms, and the reminder job classifies the hour.
InitWindows ==
    /\ QuietFlows
    /\ now = 0
    /\ chats = <<[chat |-> "c1", timezone |-> ConfigTimezone]>>
    /\ \/ settings = GlobalDefaults
       \/ \E w \in WindowConfigs :
             settings = Append(GlobalDefaults,
                               SettingsRow("c1", ConfigTimezone, w))
    /\ memberships = <<Member("u1", "c1", OPERATOR, TRUE)>>
    /\ checkins = <<>>
    /\ daily_stats = <<>>
    /\ fsm = [u \in Users |-> NoData]
    /\ cpc = [p \in Procs |-> "idle"]
    /\ cloc = [p \in Procs |-> IdleConfirm]
    /\ answer = "none"
    /\ started = "polling"
    /\ apc = [r \in Runs |-> "idle"]
    /\ aloc = [r \in Runs |-> IdleRun]
    /\ sent = {}
    /\ statInputs = <<>>
    /\ QuietJobs

NextWindows ==
    \/ Clock(WindowInstants)
    \/ HandlePhoto("u1")
    \/ \E t \in CheckinType : ConfirmCheck(1, "u1", t)
    \/ ConfirmCommit(1)
    \/ ConfirmFinish(1)
    \/ RemindStart
    \/ RemindForChat
    \/ SendMessage
    \/ RemindEnd

SpecWindows == InitWindows /\ [][NextWindows]_vars

\* ------------------------------------------------------------------ claims
CheckinKey(r) == <<r.user, r.chat, r.type, r.checkin_date>>

CheckinKeysUnique ==
    \A i, j \in DOMAIN checkins :
        i # j => CheckinKey(checkins[i]) # CheckinKey(checkins[j])

\* the commit of invocation p meets a row with its 4-tuple
CommitMeetsRow(p) ==
    /\ cpc[p] = "commit"
    /\ cpc'[p] # "commit"
    /\ CheckinsMatching(checkins, cloc[p]) # <<>>

SecondInsertRejected ==
    \A p \in Procs :
        CommitMeetsRow(p) => checkins' = checkins /\ answer' = "integrity_error"

\* C1: the checkins table never holds two rows with the same (user, chat,
\* type, checkin_date); an insert that meets a row with its 4-tuple fails
\* with IntegrityError and leaves the table as it was.
C1_OneCheckinPerKey == []CheckinKeysUnique /\ [][SecondInsertRejected]_vars

C1_Witness == answer = "integrity_error" /\ Len(checkins) >= 1

\* C2: of two confirm_checkin invocations that both passed the existence
\* check for the same (user, chat, type, local date), at most one has
\* committed its insert, and the table holds at most one row for that key.
C2_DoubleTapOneInsert ==
    \A p, q \in Procs :
        (/\ p # q
         /\ cpc[p] \in {"commit", "finish"}
         /\ cpc[q] \in {"commit", "finish"}
         /\ cloc[p] = cloc[q])
        => /\ ~(cpc[p] = "finish" /\ cpc[q] = "finish")
           /\ Len(CheckinsMatching(checkins, cloc[p])) <= 1

C2_Witness ==
    \E p, q \in Procs :
        /\ p # q
        /\ cpc[p] = "finish"
        /\ cpc[q] = "commit"
        /\ cloc[p] = cloc[q]
        /\ Len(CheckinsMatching(checkins, cloc[p])) = 1

\* C3: a confirm_checkin for a (user, chat, type, local date) that already
\* has a check-in ends with the "already recorded" answer, never with an
\* unhandled error, and leaves the checkins table unchanged; this includes
\* the confirm whose insert meets a row committed after its own check.
C3_DuplicateAnsweredAlreadyRecorded ==
    [][/\ \A p \in Procs :
             CommitMeetsRow(p) =>
                checkins' = checkins /\ answer' = "already_recorded"
       /\ \A p \in Procs, u \in Users, t \in CheckinType :
             (/\ ConfirmCheck(p, u, t)
              /\ "key" \in DOMAIN ConfirmDecision(u, t)
              /\ CheckinsMatching(checkins, ConfirmDecision(u, t).key) # <<>>)
             => checkins' = checkins /\ answer' = "already_recorded"]_vars

RollupFields(row) ==
    <<row.morning_cnt, row.evening_cnt, row.total_operators, row.misses>>

StatIndexAfter(c, d) ==
    {i \in DOMAIN daily_stats' : daily_stats'[i].chat = c /\ daily_stats'[i].date = d}

\* run r commits its session
CommitsRun(r) ==
    /\ apc[r] = "chats"
    /\ aloc[r].todo = <<>>
    /\ apc'[r] = "idle"

\* the write w repeats the aggregation the one row of its key came from
RepeatsAggregation(w) ==
    LET idx == StatIndex(w.payload.chat, w.payload.date) IN
    /\ Cardinality(idx) = 1
    /\ \A i \in idx : /\ statInputs[i].roster = w.inputs.roster
                      /\ statInputs[i].rows = w.inputs.rows

\* C4: when the aggregation of (chat, date) is run again on the same
\* memberships and check-ins the previous run used, the row keeps its
\* morning_cnt, evening_cnt, total_operators and misses, and the key still
\* has exactly one row, the one that was there.
C4_RerunOverwritesInPlace ==
    [][\A r \in Runs :
          CommitsRun(r) =>
             \A k \in DOMAIN aloc[r].pending :
                LET w == aloc[r].pending[k]
                    idx == StatIndex(w.payload.chat, w.payload.date)
                IN  RepeatsAggregation(w) =>
                       /\ StatIndexAfter(w.payload.chat, w.payload.date) = idx
                       /\ \A i \in idx :
                             RollupFields(daily_stats'[i]) = RollupFields(daily_stats[i])]_vars

C4_Witness ==
    \E i \in DOMAIN daily_stats :
        /\ statInputs[i].rerun
        /\ StatIndex(daily_stats[i].chat, daily_stats[i].date) = {i}
        /\ daily_stats[i].total_operators >= 1

\* C5: the daily_stats table never holds two rows with the same
\* (chat, date), whatever the interleaving of the aggregation runs.
C5_OneStatPerChatDate ==
    \A i, j \in DOMAIN daily_stats :
        i # j => <<daily_stats[i].chat, daily_stats[i].date>>
                 # <<daily_stats[j].chat, daily_stats[j].date>>

MissList(row, k) == IF k \in DOMAIN row.misses THEN row.misses[k] ELSE <<>>

NoDuplicates(s) == Cardinality(Range(s)) = Len(s)

\* users with a check-in of type t in the row's chat on the row's date
DoneUsers(row, t) ==
    {x.user : x \in {y \in Range(checkins) :
        y.chat = row.chat /\ y.checkin_date = row.date /\ y.type = t}}

RosterUsers(i) == {m.user : m \in Range(statInputs[i].roster)}

\* C6: in every rollup, misses.morning lists exactly the members of the
\* roster the run used that have no MORNING check-in on the date, each
\* once, and misses.evening the same for EVENING.
C6_MissesAreRosterMinusDone ==
    \A i \in DOMAIN daily_stats :
        /\ Range(MissList(daily_stats[i], "morning"))
              = RosterUsers(i) \ DoneUsers(daily_stats[i], MORNING)
        /\ Range(MissList(daily_stats[i], "evening"))
              = RosterUsers(i) \ DoneUsers(daily_stats[i], EVENING)
        /\ NoDuplicates(MissList(daily_stats[i], "morning"))
        /\ NoDuplicates(MissList(daily_stats[i], "evening"))

C6_Witness ==
    \E i \in DOMAIN daily_stats :
        /\ Len(MissList(daily_stats[i], "morning")) = 1
        /\ Len(MissList(daily_stats[i], "evening")) = 2
        /\ Cardinality(RosterUsers(i)) = 2

\* C7: in every rollup, morning_cnt is the number of distinct users with a
\* MORNING check-in in the chat on the date, evening_cnt the same for
\* EVENING, and total_operators the size of the roster the run used.
C7_CountsMatch ==
    \A i \in DOMAIN daily_stats :
        /\ daily_stats[i].morning_cnt = Cardinality(DoneUsers(daily_stats[i], MORNING))
        /\ daily_stats[i].evening_cnt = Cardinality(DoneUsers(daily_stats[i], EVENING))
        /\ daily_stats[i].total_operators = Cardinality(RosterUsers(i))

C7_Witness ==
    \E i \in DOMAIN daily_stats :
        /\ daily_stats[i].morning_cnt = 1
        /\ daily_stats[i].evening_cnt = 2
        /\ daily_stats[i].total_operators = 2

\* C8: the roster of every aggregation holds only memberships with role
\* OPERATOR and authorized = TRUE, so an unauthorized membership is neither
\* counted in total_operators nor listed in misses.
C8_RosterAuthorizedOperators ==
    \A i \in DOMAIN daily_stats :
        \A m \in Range(statInputs[i].roster) :
            m.role = OPERATOR /\ m.authorized

\* C9: the misses mapping of every rollup has both window kinds as keys,
\* each mapped to a list (empty when nobody missed the window).
C9_BothWindowKeys ==
    \A i \in DOMAIN daily_stats :
        DOMAIN daily_stats[i].misses = {"morning", "evening"}

NoSettingsFor(c) == SettingsOf(c) = <<>> /\ SettingsOf(NoChat) = <<>>

EvaluatesChat ==
    /\ rpc = "chats"
    /\ rloc.todo # <<>>
    /\ rpc' \in {"chats", "send"}
    /\ rloc' # rloc

InsideWindow(row, W, t) ==
    IF W = MORNING
    THEN row.morning_start <= t /\ t <= row.morning_end
    ELSE row.evening_start <= t /\ t <= row.evening_end

\* the window a local hour lies in
OpenWindow(row, t) ==
    IF InsideWindow(row, MORNING, t) THEN MORNING
    ELSE IF InsideWindow(row, EVENING, t) THEN EVENING
    ELSE "none"

ExcludedDay(row, local) == ~row.include_weekends /\ WeekdayOf(local) \in {5, 6}

AuthorizedOperators(c) ==
    {m.user : m \in {x \in Range(memberships) :
        x.chat = c /\ x.role = OPERATOR /\ x.authorized}}

CheckedIn(c, W, d) ==
    {x.user : x \in {y \in Range(checkins) :
        y.chat = c /\ y.type = W /\ y.checkin_date = d}}

DispatchIffMissing ==
    EvaluatesChat =>
       LET ch == Head(rloc.todo)
           local == now + ch.timezone
           eff == GetEffectiveSettings(ch.chat)
       IN  (/\ eff.status = "row"
            /\ ~ExcludedDay(eff.row, local)
            /\ OpenWindow(eff.row, local % 24) # "none")
           => LET W == OpenWindow(eff.row, local % 24)
                  missing == AuthorizedOperators(ch.chat)
                                \ CheckedIn(ch.chat, W, local \div 24)
              IN  /\ (rpc' = "send") <=> (missing # {})
                  /\ rpc' = "send" =>
                        /\ rloc'.msg.chat = ch.chat
                        /\ rloc'.msg.window = W
                        /\ Range(rloc'.msg.missing) = missing
                        /\ NoDuplicates(rloc'.msg.missing)
                        /\ sent' = sent \cup {rloc'.msg}
                  /\ rpc' # "send" => sent' = sent

\* C11: when the reminder job evaluates a chat whose local time lies in
\* window W on a non-excluded day, it dispatches a reminder exactly when
\* some authorized OPERATOR of the chat has no check-in of kind W on the
\* chat's local date, and the reminder lists exactly those operators; so a
\* tick that finds every authorized operator checked in dispatches nothing,
\* and a check-in, once stored, is never removed.
C11_ReminderIffMissing ==
    [][/\ DispatchIffMissing
       /\ Range(checkins) \subseteq Range(checkins')]_vars

C11_Witness ==
    /\ rpc = "send"
    /\ rloc.msg = [chat |-> "c2", window |-> EVENING, missing |-> <<"u2">>]
    /\ sent = {rloc.msg}
    /\ AuthorizedOperators("c1") = {"u1"}
    /\ CheckedIn("c1", EVENING, (now + ConfigTimezone) \div 24) = {"u1"}
    /\ Len(rloc.todo) = 1

\* C12: a reminder is never dispatched for a chat whose effective settings
\* have include_weekends = FALSE while the chat's local date is a Saturday
\* or a Sunday; on a local Monday to Friday such a chat is reminded like
\* any other: inside a window with an operator missing, the reminder goes
\* out.
C12_WeekendRuleOnLocalDate ==
    [][EvaluatesChat =>
          LET ch == Head(rloc.todo)
              local == now + ch.timezone
              eff == GetEffectiveSettings(ch.chat)
          IN  (eff.status = "row" /\ ~eff.row.include_weekends) =>
                 /\ WeekdayOf(local) \in {5, 6} => rpc' # "send"
                 /\ (/\ WeekdayOf(local) \notin {5, 6}
                     /\ OpenWindow(eff.row, local % 24) # "none"
                     /\ AuthorizedOperators(ch.chat) # {})
                    => rpc' = "send"]_vars

\* a chat with the weekend switch off was passed over on its local
\* Saturday while the UTC date was still Friday
C12_Witness ==
    /\ rpc = "chats"
    /\ Len(rloc.todo) = 1
    /\ sent = {}
    /\ chats[1].timezone = 9
    /\ WeekdayOf(now) = 4
    /\ WeekdayOf(now + 9) = 5
    /\ OpenWindow(DefaultSettings("c1", 9), (now + 9) % 24) = MORNING
    /\ Len(SettingsOf("c1")) = 1
    /\ ~SettingsOf("c1")[1].include_weekends

\* ------------------------------------------------------ claims: the windows
\* the settings row the reminder job classifies chat c with
ClassifiedRow(c) == GetEffectiveSettings(c).row

\* C13: the window classifier answers MORNING when morning_start <= t <=
\* morning_end, otherwise EVENING when evening_start <= t <= evening_end,
\* otherwise no window, both ends included; an hour inside both windows is
\* classified MORNING.
C13_ClassifierByContainment ==
    (rpc # "idle" /\ rloc.window # "unset") =>
       LET row == ClassifiedRow("c1")
           t == (now + chats[1].timezone) % 24
           in_morning == row.morning_start <= t /\ t <= row.morning_end
           in_evening == row.evening_start <= t /\ t <= row.evening_end
       IN  /\ in_morning => rloc.window = MORNING
           /\ (~in_morning /\ in_evening) => rloc.window = EVENING
           /\ (~in_morning /\ ~in_evening) => rloc.window = "none"

\* an hour inside both windows of a row whose windows overlap
C13_Witness ==
    /\ rpc # "idle"
    /\ rloc.window = MORNING
    /\ Len(SettingsOf("c1")) = 1
    /\ LET row == SettingsOf("c1")[1]
           t == (now + chats[1].timezone) % 24
       IN  /\ row.morning_start <= t /\ t <= row.morning_end
           /\ row.evening_start <= t /\ t <= row.evening_end

\* the hard-coded fallback of the acceptance path
FallbackWindows ==
    [morning_start |-> 6, morning_end |-> 11,
     evening_start |-> 16, evening_end |-> 23]

\* the K window of chat c is open at the chat-local hour of now
AcceptanceWindowOpen(c, K) ==
    LET own == SettingsOf(c)
        t == (now + ChatRow(c).timezone) % 24
    IN  IF own # <<>> THEN InsideWindow(own[1], K, t)
        ELSE InsideWindow(FallbackWindows, K, t)

\* invocation p passes the checks of confirm_checkin and goes on to insert
Accepts(p) == cpc[p] = "idle" /\ cpc'[p] = "commit"

\* C14: confirm_checkin goes on to store a Checkin of kind K only at a
\* chat-local hour inside the K window of the chat's own settings row, or
\* inside 06:00-11:00 / 16:00-23:00 when the chat has no row of its own
\* (ends included); rows enter the table only through such an accepted
\* confirm, and a confirm outside the window stores nothing.
C14_StoredOnlyInsideWindow ==
    [][/\ \A p \in Procs :
             Accepts(p) => AcceptanceWindowOpen(cloc'[p].chat, cloc'[p].type)
       /\ checkins' # checkins =>
             \E p \in Procs : /\ cpc[p] = "commit"
                               /\ checkins' = Append(checkins, cloc[p])
       /\ \A p \in Procs, u \in Users, K \in CheckinType :
             (/\ ConfirmCheck(p, u, K)
              /\ AuthorizedMemberships(u) # <<>>
              /\ ~AcceptanceWindowOpen(AuthorizedMemberships(u)[1].chat, K))
             => cpc' = cpc /\ checkins' = checkins]_vars

\* a MORNING check-in stored at 17:00 local under a row whose morning
\* window ends at 17:00
C14_Witness ==
    /\ cpc[1] = "finish"
    /\ cloc[1].type = MORNING
    /\ CheckinsMatching(checkins, cloc[1]) # <<>>
    /\ (now + chats[1].timezone) % 24 = 17
    /\ Len(SettingsOf("c1")) = 1
    /\ SettingsOf("c1")[1].morning_end = 17

\* ------------------------------------------------ claims: error isolation
\* the reminder job ends
ReminderJobEnds == rpc # "idle" /\ rpc' = "idle"

\* C15: a failure while the reminder job processes one chat ends that
\* chat's step only: the job never ends while a chat other than the one
\* being processed is still waiting to be evaluated.
C15_ReminderFailureIsolated ==
    [][ReminderJobEnds => Len(rloc.todo) <= 1]_vars

\* aggregation run r ends
AggregationRunEnds(r) == apc[r] # "idle" /\ apc'[r] = "idle"

\* C16: a storage error while the aggregation processes one chat ends that
\* chat's step only: a run never ends while a chat other than the one
\* being processed is still waiting, and when it ends every rollup it
\* staged for the other chats is in the table.
C16_AggregationFailureIsolated ==
    [][\A r \in Runs :
          AggregationRunEnds(r) =>
             /\ Len(aloc[r].todo) <= 1
             /\ \A k \in DOMAIN aloc[r].pending :
                   aloc[r].pending[k].payload \in Range(daily_stats')]_vars

\* ------------------------------------------------- claims: the dispatcher
\* C17: one call of _send_message makes at most two send attempts: after a
\* rate-limit answer it retries once, and gives up when the retry is
\* rate-limited again.
C17_AtMostTwoAttempts == rloc.attempts <= 2

\* a step of the send in progress
SendStep == rpc = "send" /\ <<rpc, rloc>>' # <<rpc, rloc>>

\* the step logs that the bot is blocked in the chat of the message
LogsBlocked ==
    [event |-> "blocked", chat |-> rloc.msg.chat] \in rloc'.log \ rloc.log

\* C18: no answer of the transport makes _send_message raise into the
\* reminder job, and a forbidden answer ends the dispatch: it is logged,
\* no further attempt is made for the message, and the job goes on with
\* the next chat.
C18_ForbiddenIsTerminal ==
    [][SendStep =>
          /\ rpc' \in {"send", "chats"}
          /\ LogsBlocked =>
                /\ rpc' = "chats"
                /\ rloc'.todo = Tail(rloc.todo)
                /\ rloc'.attempts = rloc.attempts + 1]_vars

\* after the bot was found blocked in c1, the same tick dispatches the
\* reminder of c2
C18_Witness ==
    /\ rpc = "send"
    /\ rloc.msg.chat = "c2"
    /\ [event |-> "blocked", chat |-> "c1"] \in rloc.log
    /\ Cardinality(sent) = 2

\* ------------------------------------------------ wishlist: ping scheduler
\* bound of the wishlist clock, and of the summaries up to which a stop of
\* the process is looked at
MaxPingNow == 400
MaxSummaries == 3

\* scheduler.py: the interval of the job, in hours
PingInterval == 6
\* utils.compute_next_ping: the local hour of a ping
PingHour == 10
\* next_ping_at IS NULL
NullPing == -1

\* bot.py: DEFAULT_TZ = os.getenv("TZ", "Europe/Moscow"); UTC+3, and two
\* other values of TZ
DefaultTz == 3
PingTimezones == {DefaultTz, -8, 11}

attendanceVars == <<chats, memberships, settings, checkins, daily_stats, fsm,
                    cpc, cloc, answer, started, apc, aloc, sent, statInputs,
                    remindVars>>

\* the chats in the order of their ids
ChatOrder == <<"c1", "c2">>

\* utils.compute_next_ping(now, timezone, days): now in the time zone of
\* the chat, days calendar days later, at 10:00 local, back in UTC
ComputeNextPing(t, tz, days) ==
    (DateOf(LocalNow(t, tz)) + days) * 24 + PingHour - tz

\* Storage.due_chat_metas(now): the metas with a next_ping_at that is not
\* null and not later than now
IsDue(c, t) ==
    /\ metas[c] # NoRow
    /\ metas[c].next_ping_at # NullPing
    /\ metas[c].next_ping_at <= t

MetaOf(c) == [chat |-> c, timezone |-> metas[c].timezone,
              next_ping_at |-> metas[c].next_ping_at]

RECURSIVE DueFrom(_, _)
DueFrom(order, t) ==
    IF order = <<>> THEN <<>>
    ELSE IF IsDue(Head(order), t)
         THEN <<MetaOf(Head(order))>> \o DueFrom(Tail(order), t)
         ELSE DueFrom(Tail(order), t)

DueChatMetas(t) == DueFrom(ChatOrder, t)

\* Storage.update_chat_meta(chat_id, next_ping_at=...)
UpdateChatMeta(c, next_ping) ==
    [metas EXCEPT ![c] = [@ EXCEPT !.next_ping_at = next_ping]]

\* bot.ensure_chat_meta -> storage.get_or_init_chat_meta: the row of a chat
\* is made at its first interaction, with no ping scheduled
EnsureChatMeta(c) ==
    /\ metas[c] = NoRow
    /\ metas' = [metas EXCEPT ![c] = [timezone |-> DefaultTz,
                                      next_ping_at |-> NullPing]]
    /\ UNCHANGED <<flowVars, now, attendanceVars, storeVars, ppc, ploc, summaries>>

\* the interval trigger: the next run is PingInterval hours later
PingClock ==
    /\ ppc = "idle"
    /\ now + PingInterval <= MaxPingNow
    /\ now' = now + PingInterval
    /\ UNCHANGED <<flowVars, attendanceVars, wishVars>>

\* check_and_ping_chats, lines 16-19: now is read once, the due metas are
\* loaded; with none of them the job returns
PingStart ==
    /\ ppc = "idle"
    /\ DueChatMetas(now) # <<>>
    /\ ppc' = "chats"
    /\ ploc' = [IdlePing EXCEPT !.now = now, !.metas = DueChatMetas(now)]
    /\ UNCHANGED <<flowVars, now, attendanceVars, storeVars, metas, summaries>>

\* the next ping counted from the elapsed next_ping_at instead of now
NextPingFromDueTime(meta, tick_now) ==
    ComputeNextPing(meta.next_ping_at, meta.timezone, 14)

\* line 37: compute_next_ping(now, meta.timezone, days=14)
NextPing(meta, tick_now) == ComputeNextPing(tick_now, meta.timezone, 14)

\* the store of lines 37-38 placed before the send of lines 33-36
PingStepsStoreFirst == <<"store", "send">>

\* the body of the loop for one due chat, in the order of lines 21-38: the
\* summary is built and sent (21-36), then the next ping is stored (37-38)
PingSteps == <<"send", "store">>

\* where the job is after one step of the body
AfterStep(loc) ==
    IF loc.step < Len(PingSteps)
    THEN [loc EXCEPT !.step = loc.step + 1]
    ELSE [loc EXCEPT !.step = 1, !.i = loc.i + 1]

\* the send of lines 33-36 without its try/except: an exception of the send
\* leaves the job
PingSendRaises ==
    /\ ppc = "chats"
    /\ ploc.i <= Len(ploc.metas)
    /\ PingSteps[ploc.step] = "send"
    /\ LET meta == ploc.metas[ploc.i] IN
       \E outcome \in {"ok", "error"} :
          /\ summaries' = [summaries EXCEPT ![meta.chat] = @ + 1]
          /\ IF outcome = "error"
             THEN /\ ppc' = "idle"
                  /\ ploc' = IdlePing
             ELSE /\ ppc' = ppc
                  /\ ploc' = [AfterStep(ploc) EXCEPT !.log =
                                 @ \cup {[event |-> "sent", chat |-> meta.chat]}]
    /\ UNCHANGED <<flowVars, now, attendanceVars, storeVars, metas>>

\* lines 21-36: the summary is built and handed to send_message; an
\* exception of the send is logged and swallowed
PingSend ==
    /\ ppc = "chats"
    /\ ploc.i <= Len(ploc.metas)
    /\ PingSteps[ploc.step] = "send"
    /\ LET meta == ploc.metas[ploc.i] IN
       \E outcome \in {"ok", "error"} :
          /\ summaries' = [summaries EXCEPT ![meta.chat] = @ + 1]
          /\ ploc' = [AfterStep(ploc) EXCEPT !.log =
                         @ \cup {[event |-> IF outcome = "ok" THEN "sent"
                                            ELSE "failed",
                                  chat |-> meta.chat]}]
    /\ UNCHANGED <<flowVars, now, attendanceVars, storeVars, metas, ppc>>

\* lines 37-38: the next ping is computed and stored
PingStore ==
    /\ ppc = "chats"
    /\ ploc.i <= Len(ploc.metas)
    /\ PingSteps[ploc.step] = "store"
    /\ LET meta == ploc.metas[ploc.i] IN
          metas' = UpdateChatMeta(meta.chat, NextPing(meta, ploc.now))
    /\ ploc' = AfterStep(ploc)
    /\ UNCHANGED <<flowVars, now, attendanceVars, storeVars, ppc, summaries>>

\* the loop is over
PingEnd ==
    /\ ppc = "chats"
    /\ ploc.i > Len(ploc.metas)
    /\ ppc' = "idle"
    /\ ploc' = IdlePing
    /\ UNCHANGED <<flowVars, now, attendanceVars, storeVars, metas, summaries>>

\* the process stops between the two steps of the body; it is started
\* again and the job runs at once (next_run_time = now)
PingCrash ==
    /\ ppc = "chats"
    /\ ploc.i <= Len(ploc.metas)
    /\ ploc.step = 2
    /\ summaries[ploc.metas[ploc.i].chat] < MaxSummaries
    /\ ppc' = "idle"
    /\ ploc' = IdlePing
    /\ UNCHANGED <<flowVars, now, attendanceVars, storeVars, metas, summaries>>

\* the schedules the store may hold when the job is looked at: no row, or a
\* ping in the past, now or in the future
PingSchedules(zones) ==
    {NoRow} \cup [timezone : zones, next_ping_at : {0, 9, 40}]

InitPing ==
    /\ QuietFlows
    /\ now \in {9, 15}
    /\ \E m1 \in PingSchedules(PingTimezones), m2 \in PingSchedules({DefaultTz}) :
          metas = [c \in Chats |-> IF c = "c1" THEN m1 ELSE m2]
    /\ ppc = "idle"
    /\ ploc = IdlePing
    /\ summaries = [c \in Chats |-> 0]
    /\ EmptyStore
    /\ rpc = "idle"
    /\ rloc = IdleRemind
    /\ chats = <<>>
    /\ settings = <<>>
    /\ memberships = <<>>
    /\ checkins = <<>>
    /\ daily_stats = <<>>
    /\ fsm = [u \in Users |-> NoData]
    /\ cpc = [p \in Procs |-> "idle"]
    /\ cloc = [p \in Procs |-> IdleConfirm]
    /\ answer = "none"
    /\ started = "down"
    /\ apc = [r \in Runs |-> "idle"]
    /\ aloc = [r \in Runs |-> IdleRun]
    /\ sent = {}
    /\ statInputs = <<>>

NextPingJob ==
    \/ PingClock
    \/ \E c \in Chats : EnsureChatMeta(c)
    \/ PingStart
    \/ PingSend
    \/ PingStore
    \/ PingCrash
    \/ PingEnd

SpecPing == InitPing /\ [][NextPingJob]_vars

\* ----------------------------------------------- claims: wishlist pings
\* the chats of the metas a tick has loaded
LoadedChats(loc) == {loc.metas[k].chat : k \in 1..Len(loc.metas)}

\* the schedule of c holds a ping that is not later than t
PingElapsed(c, t) ==
    /\ metas[c] # NoRow
    /\ metas[c].next_ping_at # NullPing
    /\ metas[c].next_ping_at <= t

\* a tick starts, a tick ends with its loop done, the process stops in a tick
PingStartStep == ppc = "idle" /\ ppc' = "chats"
PingEndStep == ppc = "chats" /\ ppc' = "idle" /\ ploc.i > Len(ploc.metas)
PingStopStep == ppc = "chats" /\ ppc' = "idle" /\ ploc.i <= Len(ploc.metas)

\* the stored schedule of c is replaced
Rescheduled(c) == metas[c] # NoRow /\ metas'[c] # metas[c]

\* C19: a tick takes up exactly the chats whose next_ping_at is not null
\* and not later than its now; the next_ping_at it stores for such a chat
\* is 10:00 local of the day 14 calendar days after now, later than now;
\* only a chat whose ping has elapsed is rescheduled, so it is not due
\* again before the stored instant; a tick that ends leaves no chat due.
C19_DueChatRescheduled ==
    [][/\ PingStartStep =>
             /\ ploc'.now = now
             /\ \A c \in Chats : c \in LoadedChats(ploc') <=> PingElapsed(c, now)
       /\ \A c \in Chats :
             Rescheduled(c) =>
                LET tz == metas[c].timezone
                    next_ping == metas'[c].next_ping_at
                IN /\ PingElapsed(c, now)
                   /\ metas'[c].timezone = tz
                   /\ TimeOf(LocalNow(next_ping, tz)) = 10
                   /\ DateOf(LocalNow(next_ping, tz))
                         = DateOf(LocalNow(now, tz)) + 14
                   /\ next_ping > now
       /\ PingEndStep => \A c \in Chats : ~PingElapsed(c, now)]_vars

\* c1 got one summary and was rescheduled two weeks ahead; at the last tick
\* before that instant it is not due
C19_Witness ==
    /\ ppc = "idle"
    /\ summaries["c1"] = 1
    /\ metas["c1"] # NoRow
    /\ metas["c1"].next_ping_at > 300
    /\ metas["c1"].next_ping_at > now
    /\ metas["c1"].next_ping_at - now < PingInterval

\* C20: a next_ping_at is stored only for a chat whose summary send was
\* attempted earlier in the same tick; when the process stops between the
\* send and the store, the schedule is unchanged and the chat is still due,
\* and the tick that follows takes up every chat that is due.
C20_SendBeforeStore ==
    [][/\ \A c \in Chats :
             Rescheduled(c) => \E e \in ploc.log : e.chat = c
       /\ PingStopStep =>
             LET c == ploc.metas[ploc.i].chat
             IN /\ metas' = metas
                /\ summaries[c] >= 1
                /\ PingElapsed(c, now)
       /\ PingStartStep =>
             \A c \in Chats : PingElapsed(c, now) => c \in LoadedChats(ploc')]_vars

\* the process stopped after the first send to c1; the next tick has sent the
\* summary a second time and the first schedule is still stored
C20_Witness ==
    /\ ppc = "chats"
    /\ ploc.i <= Len(ploc.metas)
    /\ ploc.metas[ploc.i].chat = "c1"
    /\ ploc.step = 2
    /\ summaries["c1"] = 2
    /\ metas["c1"].next_ping_at = 0

\* a step of the job at the send of the current chat
PingSendStep ==
    /\ ppc = "chats"
    /\ ploc.i <= Len(ploc.metas)
    /\ PingSteps[ploc.step] = "send"
    /\ <<ppc, ploc, summaries>>' # <<ppc, ploc, summaries>>

\* C21: whatever the send of a summary answers, the job stays in the tick
\* and goes on to the store of the same chat; a tick that ends has
\* attempted the send for every chat it loaded and has rescheduled every one
\* of them, those whose send failed included.
C21_SendFailureStaysInTick ==
    [][/\ PingSendStep =>
             /\ ppc' = "chats"
             /\ ploc'.i = ploc.i
             /\ PingSteps[ploc'.step] = "store"
             /\ \E e \in ploc'.log : e.chat = ploc.metas[ploc.i].chat
       /\ PingEndStep =>
             \A c \in LoadedChats(ploc) :
                /\ \E e \in ploc.log : e.chat = c
                /\ metas[c].next_ping_at > ploc.now]_vars

\* the send to c1 failed; c1 was rescheduled all the same, and c2 got its
\* summary and was rescheduled in the same tick
C21_Witness ==
    /\ ppc = "chats"
    /\ ploc.i > Len(ploc.metas)
    /\ [event |-> "failed", chat |-> "c1"] \in ploc.log
    /\ [event |-> "sent", chat |-> "c2"] \in ploc.log
    /\ metas["c1"].next_ping_at > ploc.now
    /\ metas["c2"].next_ping_at > ploc.now

MaxWishes == 2

\* a NULL column, None
NULL == "NULL"
\* a NULL DateTime column
NoTime == -1

\* bot.py: DEFAULT_TZ, as the name storage.py stores
DefaultTzName == "Europe/Moscow"
\* the timezone arguments of get_or_init_chat_meta
StoreTimezones == {"", "UTC", DefaultTzName}

\* the time_horizon arguments: None, an empty string, a label of
\* TIME_HORIZON_OPTIONS
Horizons == {NULL, "", "this_month"}

\* the ids a caller may name: those of the rows and one that is not there
WishIds == 1..(MaxWishes + 1)

\* the hours at which the store is looked at
StoreInstants == {1}

\* session.get(Wish, wish_id)
GetWish(ws, wish_id) == {w \in ws : w.id = wish_id}

\* the INTEGER PRIMARY KEY of a new row: one more than the largest in use
NextWishId(ws) ==
    IF ws = {} THEN 1
    ELSE 1 + CHOOSE m \in {w.id : w \in ws} : \A w \in ws : w.id <= m

\* get_or_init_chat_meta that replaces the row when the timezone differs
GetOrInitRecreates(cm, c, tz, t) ==
    IF cm[c] # NoRow /\ ~(tz # "" /\ cm[c].timezone # tz)
    THEN cm
    ELSE [cm EXCEPT ![c] = [timezone |-> tz, last_added_at |-> NoTime,
                            created_at |-> t]]

\* get_or_init_chat_meta(chat_id, timezone): the table after the call
GetOrInit(cm, c, tz, t) ==
    IF cm[c] # NoRow
    THEN IF tz # "" /\ cm[c].timezone # tz
         THEN [cm EXCEPT ![c] = [@ EXCEPT !.timezone = tz]]
         ELSE cm
    ELSE [cm EXCEPT ![c] = [timezone |-> tz, last_added_at |-> NoTime,
                            created_at |-> t]]

GetOrInitChatMeta(c, tz) ==
    /\ chatmeta' = GetOrInit(chatmeta, c, tz, now)
    /\ ret' = [op |-> "get_or_init_chat_meta", chat_id |-> c, timezone |-> tz,
               value |-> chatmeta'[c]]
    /\ UNCHANGED <<flowVars, now, attendanceVars, metas, ppc, ploc, summaries, wishes>>

\* create_wish(chat_id=..., time_horizon=...)
CreateWish(c, horizon) ==
    /\ Cardinality(wishes) < MaxWishes
    /\ LET wish == [id |-> NextWishId(wishes), chat_id |-> c,
                    status |-> "open", time_horizon |-> horizon,
                    created_at |-> now, done_at |-> NoTime]
       IN /\ wishes' = wishes \cup {wish}
          /\ ret' = [op |-> "create_wish", value |-> wish]
    /\ chatmeta' = IF chatmeta[c] # NoRow
                   THEN [chatmeta EXCEPT ![c] = [@ EXCEPT !.last_added_at = now]]
                   ELSE chatmeta
    /\ UNCHANGED <<flowVars, now, attendanceVars, metas, ppc, ploc, summaries>>

\* update_wish(wish_id, time_horizon=...)
UpdateWish(wish_id, horizon) ==
    /\ wishes' = {IF w.id = wish_id THEN [w EXCEPT !.time_horizon = horizon]
                  ELSE w : w \in wishes}
    /\ ret' = [op |-> "update_wish", wish_id |-> wish_id,
               found |-> GetWish(wishes, wish_id) # {}]
    /\ UNCHANGED <<flowVars, now, attendanceVars, metas, ppc, ploc, summaries, chatmeta>>

\* mark_done that stamps done_at at every call
MarkDoneRestamps(ws, wish_id, t) ==
    {IF w.id = wish_id THEN [w EXCEPT !.status = "done", !.done_at = t]
     ELSE w : w \in ws}

\* mark_done(wish_id): the table after the call
MarkDoneIn(ws, wish_id, t) ==
    {IF w.id = wish_id /\ w.status # "done"
     THEN [w EXCEPT !.status = "done", !.done_at = t]
     ELSE w : w \in ws}

MarkDone(wish_id) ==
    /\ wishes' = MarkDoneIn(wishes, wish_id, now)
    /\ ret' = [op |-> "mark_done", wish_id |-> wish_id,
               value |-> GetWish(wishes', wish_id)]
    /\ UNCHANGED <<flowVars, now, attendanceVars, metas, ppc, ploc, summaries, chatmeta>>

\* delete_wish that deletes the rows of the chat of the wish
DeleteWishOfChat(ws, wish_id) ==
    {w \in ws : \A v \in GetWish(ws, wish_id) : w.chat_id # v.chat_id}

\* delete_wish(wish_id): the table after the call
DeleteWishIn(ws, wish_id) == {w \in ws : w.id # wish_id}

DeleteWish(wish_id) ==
    /\ wishes' = DeleteWishIn(wishes, wish_id)
    /\ ret' = [op |-> "delete_wish", wish_id |-> wish_id,
               value |-> GetWish(wishes, wish_id) # {}]
    /\ UNCHANGED <<flowVars, now, attendanceVars, metas, ppc, ploc, summaries, chatmeta>>

\* list_wishes without the chat filter
MatchingAnyChat(ws, c, status, horizon) ==
    {w \in ws : /\ status \in {NULL, ""} \/ w.status = status
                /\ horizon \in {NULL, ""} \/ w.time_horizon = horizon}

\* list_wishes: the rows that pass the filters; a filter that is None or
\* empty is not applied
Matching(ws, c, status, horizon) ==
    {w \in ws : /\ w.chat_id = c
                /\ status \in {NULL, ""} \/ w.status = status
                /\ horizon \in {NULL, ""} \/ w.time_horizon = horizon}

\* ORDER BY created_at DESC: every order of the rows the database may give
NewestFirst(rows) ==
    {q \in [1..Cardinality(rows) -> rows] :
        /\ \A i, j \in 1..Cardinality(rows) : i # j => q[i] # q[j]
        /\ \A i, j \in 1..Cardinality(rows) :
              i < j => q[i].created_at >= q[j].created_at}

\* limit = max(1, int(limit or 1)), offset = max(0, int(offset or 0))
ClampLimit(limit) == IF limit < 1 THEN 1 ELSE limit
ClampOffset(offset) == IF offset < 0 THEN 0 ELSE offset

\* LIMIT limit OFFSET offset
PageOf(q, limit, offset) ==
    SubSeq(q, offset + 1,
           IF offset + limit < Len(q) THEN offset + limit ELSE Len(q))

\* list_wishes(chat_id, status, time_horizon, limit, offset)
ListWishes(c, status, horizon, limit, offset) ==
    /\ \E q \in NewestFirst(Matching(wishes, c, status, horizon)) :
          ret' = [op |-> "list_wishes", chat_id |-> c, status |-> status,
                  time_horizon |-> horizon, limit |-> limit, offset |-> offset,
                  wishes |-> PageOf(q, ClampLimit(limit), ClampOffset(offset)),
                  total |-> Cardinality(Matching(wishes, c, status, horizon))]
    /\ UNCHANGED <<flowVars, now, attendanceVars, metas, ppc, ploc, summaries, wishes,
                   chatmeta>>

\* count_stats: rows of the chat with a status
WithStatus(ws, c, status) == {w \in ws : w.chat_id = c /\ w.status = status}

\* row[0] or "Без срока"
HorizonKey(horizon) == IF horizon \in {NULL, ""} THEN "no_term" ELSE horizon

\* the GROUP BY time_horizon of the open rows, and the size of a group
HorizonGroups(ws, c) == {w.time_horizon : w \in WithStatus(ws, c, "open")}
GroupCount(ws, c, horizon) ==
    Cardinality({w \in WithStatus(ws, c, "open") : w.time_horizon = horizon})

\* {row[0] or "Без срока": row[1] for row in horizon_rows}: a key written
\* by several groups keeps the count of the one written last, and the order
\* of the groups is the database's
ByHorizon(ws, c) ==
    {d \in [{HorizonKey(h) : h \in HorizonGroups(ws, c)} -> 1..Cardinality(ws)] :
        \A k \in DOMAIN d :
           \E h \in HorizonGroups(ws, c) :
              HorizonKey(h) = k /\ d[k] = GroupCount(ws, c, h)}

\* count_stats(chat_id)
CountStats(c) ==
    /\ \E d \in ByHorizon(wishes, c) :
          ret' = [op |-> "count_stats", chat_id |-> c,
                  total_open |-> Cardinality(WithStatus(wishes, c, "open")),
                  total_done |-> Cardinality(WithStatus(wishes, c, "done")),
                  by_horizon |-> d]
    /\ UNCHANGED <<flowVars, now, attendanceVars, metas, ppc, ploc, summaries, wishes,
                   chatmeta>>

\* ------------------------------------------------- wishlist: bot.py handlers
\* done_command: /done <id> in chat c; can_manage is what user_can_manage
\* found for the sender
DoneCommand(c, wish_id, can_manage) ==
    /\ chatmeta' = GetOrInit(chatmeta, c, DefaultTzName, now)
    /\ IF ~can_manage
       THEN /\ wishes' = wishes
            /\ ret' = [op |-> "done_command", chat_id |-> c,
                       wish_id |-> wish_id, reply |-> "admins_only"]
       ELSE /\ wishes' = MarkDoneIn(wishes, wish_id, now)
            /\ ret' = [op |-> "done_command", chat_id |-> c,
                       wish_id |-> wish_id,
                       reply |-> IF \E w \in GetWish(wishes', wish_id) :
                                       w.chat_id = c
                                 THEN "marked_done" ELSE "not_found"]
    /\ UNCHANGED <<flowVars, now, attendanceVars, metas, ppc, ploc, summaries>>

\* delete_command: /delete <id> in chat c
DeleteCommand(c, wish_id, can_manage) ==
    /\ chatmeta' = GetOrInit(chatmeta, c, DefaultTzName, now)
    /\ IF ~can_manage
       THEN /\ wishes' = wishes
            /\ ret' = [op |-> "delete_command", chat_id |-> c,
                       wish_id |-> wish_id, reply |-> "admins_only"]
       ELSE /\ wishes' = DeleteWishIn(wishes, wish_id)
            /\ ret' = [op |-> "delete_command", chat_id |-> c,
                       wish_id |-> wish_id,
                       reply |-> IF GetWish(wishes, wish_id) # {}
                                 THEN "deleted" ELSE "not_found"]
    /\ UNCHANGED <<flowVars, now, attendanceVars, metas, ppc, ploc, summaries>>

\* wish_callback: the button WISH:<action>:<id> pressed under a message of
\* chat c
WishCallback(c, action, wish_id, can_manage) ==
    /\ IF ~can_manage
       THEN /\ wishes' = wishes
            /\ ret' = [op |-> "wish_callback", chat_id |-> c,
                       wish_id |-> wish_id, reply |-> "admins_only"]
       ELSE IF action = "DONE"
       THEN /\ wishes' = MarkDoneIn(wishes, wish_id, now)
            /\ ret' = [op |-> "wish_callback", chat_id |-> c,
                       wish_id |-> wish_id,
                       reply |-> IF \E w \in GetWish(wishes', wish_id) :
                                       w.chat_id = c
                                 THEN "marked_done" ELSE "not_found"]
       ELSE IF action = "DEL"
       THEN /\ wishes' = DeleteWishIn(wishes, wish_id)
            /\ ret' = [op |-> "wish_callback", chat_id |-> c,
                       wish_id |-> wish_id,
                       reply |-> IF GetWish(wishes, wish_id) # {}
                                 THEN "deleted" ELSE "not_deleted"]
       ELSE /\ wishes' = wishes
            /\ ret' = [op |-> "wish_callback", chat_id |-> c,
                       wish_id |-> wish_id, reply |-> "none"]
    /\ UNCHANGED <<flowVars, now, attendanceVars, metas, ppc, ploc, summaries, chatmeta>>

\* the attendance bot and the ping job are not part of the wishlist store
NoOtherProgram ==
    /\ metas = [c \in Chats |-> NoRow]
    /\ ppc = "idle"
    /\ ploc = IdlePing
    /\ summaries = [c \in Chats |-> 0]
    /\ rpc = "idle"
    /\ rloc = IdleRemind
    /\ chats = <<>>
    /\ settings = <<>>
    /\ memberships = <<>>
    /\ checkins = <<>>
    /\ daily_stats = <<>>
    /\ fsm = [u \in Users |-> NoData]
    /\ cpc = [p \in Procs |-> "idle"]
    /\ cloc = [p \in Procs |-> IdleConfirm]
    /\ answer = "none"
    /\ started = "down"
    /\ apc = [r \in Runs |-> "idle"]
    /\ aloc = [r \in Runs |-> IdleRun]
    /\ sent = {}
    /\ statInputs = <<>>

\* the store after c1 was registered by its first update; c2 has no row
RegisteredC1 ==
    [c \in Chats |-> IF c = "c1"
                     THEN [timezone |-> DefaultTzName, last_added_at |-> NoTime,
                           created_at |-> 0]
                     ELSE NoRow]

\* the wishes of the chats: created, changed, marked done, deleted, counted
InitStore ==
    /\ QuietFlows
    /\ now = 0
    /\ wishes = {}
    /\ chatmeta = RegisteredC1
    /\ ret = NoCall
    /\ NoOtherProgram

NextStore ==
    \/ \E c \in Chats, h \in Horizons : CreateWish(c, h)
    \/ \E i \in WishIds, h \in Horizons : UpdateWish(i, h)
    \/ \E i \in WishIds : MarkDone(i)
    \/ \E i \in WishIds : DeleteWish(i)
    \/ \E c \in Chats : CountStats(c)

SpecStore == InitStore /\ [][NextStore]_vars

\* the commands and buttons of the bot over the wishes of two chats
InitHandlers ==
    /\ QuietFlows
    /\ now = 0
    /\ wishes = {}
    /\ chatmeta = RegisteredC1
    /\ ret = NoCall
    /\ NoOtherProgram

NextHandlers ==
    \/ \E c \in Chats : CreateWish(c, NULL)
    \/ \E c \in Chats, i \in WishIds, can_manage \in BOOLEAN :
          DoneCommand(c, i, can_manage)
    \/ \E c \in Chats, i \in WishIds, can_manage \in BOOLEAN :
          DeleteCommand(c, i, can_manage)
    \/ \E c \in Chats, action \in {"DONE", "DEL", "EDIT"}, i \in WishIds,
          can_manage \in BOOLEAN : WishCallback(c, action, i, can_manage)

SpecHandlers == InitHandlers /\ [][NextHandlers]_vars

\* the rows of table chats: made, renamed, stamped by create_wish
InitChatMeta ==
    /\ QuietFlows
    /\ now = 0
    /\ EmptyStore
    /\ NoOtherProgram

NextChatMeta ==
    \/ Clock(StoreInstants)
    \/ \E c \in Chats, tz \in StoreTimezones : GetOrInitChatMeta(c, tz)
    \/ \E c \in Chats : CreateWish(c, NULL)

SpecChatMeta == InitChatMeta /\ [][NextChatMeta]_vars

\* the pages of list_wishes over the wishes of the chats
InitList ==
    /\ QuietFlows
    /\ now = 0
    /\ wishes = {}
    /\ chatmeta = RegisteredC1
    /\ ret = NoCall
    /\ NoOtherProgram

NextList ==
    \/ Clock(StoreInstants)
    \/ \E h \in {NULL, "this_month"} : CreateWish("c1", h)
    \/ CreateWish("c2", NULL)
    \/ \E i \in WishIds : MarkDone(i)
    \/ \E c \in Chats, st \in {NULL, "done"}, h \in {NULL, "this_month"},
          limit \in {0, 2}, offset \in 0..1 : ListWishes(c, st, h, limit, offset)

SpecList == InitList /\ [][NextList]_vars

\* ---------------------------------------------- claims: the wishlist store
\* a call of the store function op has returned
Returns(op) == ret'.op = op /\ storeVars' # storeVars

\* C23: mark_done of an existing wish leaves it done with done_at set, the
\* first time to now and later as it was; of an id that is not there it
\* returns None; no other wish and no chat row changes.
C23_MarkDoneOnce ==
    [][Returns("mark_done") =>
          LET wish_id == ret'.wish_id IN
          /\ chatmeta' = chatmeta
          /\ \A w \in wishes : w.id # wish_id => w \in wishes'
          /\ Cardinality(wishes') = Cardinality(wishes)
          /\ GetWish(wishes, wish_id) = {} =>
                ret'.value = {} /\ wishes' = wishes
          /\ \A w \in GetWish(wishes, wish_id) :
                /\ ret'.value = GetWish(wishes', wish_id)
                /\ \A v \in GetWish(wishes', wish_id) :
                      /\ v.status = "done"
                      /\ v.done_at # NoTime
                      /\ w.status = "done" => v = w
                      /\ w.status # "done" =>
                            v = [w EXCEPT !.status = "done", !.done_at = now]
                /\ GetWish(wishes', wish_id) # {}]_vars

\* mark_done has returned a wish that was done an hour earlier
C23_Witness ==
    /\ ret.op = "mark_done"
    /\ now = 1
    /\ \E w \in ret.value : w \in wishes /\ w.status = "done" /\ w.done_at = 0

\* C24: get_or_init_chat_meta leaves one row for its chat: it makes the row
\* when there is none, replaces the timezone of an existing row by one that
\* is not empty, keeps created_at and last_added_at, and touches no other
\* row.
C24_OneRowPerChat ==
    [][Returns("get_or_init_chat_meta") =>
          LET c == ret'.chat_id
              tz == ret'.timezone
          IN /\ wishes' = wishes
             /\ \A d \in Chats \ {c} : chatmeta'[d] = chatmeta[d]
             /\ chatmeta'[c] # NoRow
             /\ ret'.value = chatmeta'[c]
             /\ chatmeta[c] = NoRow => chatmeta'[c].timezone = tz
             /\ chatmeta[c] # NoRow =>
                   /\ chatmeta'[c].created_at = chatmeta[c].created_at
                   /\ chatmeta'[c].last_added_at = chatmeta[c].last_added_at
                   /\ chatmeta'[c].timezone =
                         IF tz # "" THEN tz ELSE chatmeta[c].timezone]_vars

\* the row of c1, made at 0 and stamped by a wish at 0, is returned an hour
\* later with the timezone of the call
C24_Witness ==
    /\ ret.op = "get_or_init_chat_meta"
    /\ ret.chat_id = "c1"
    /\ ret.timezone = "UTC"
    /\ now = 1
    /\ chatmeta["c1"] = [timezone |-> "UTC", last_added_at |-> 0,
                         created_at |-> 0]
    /\ chatmeta["c2"] # NoRow
    /\ chatmeta["c2"].timezone = DefaultTzName

\* C25: delete_wish of an existing wish returns True and removes that row
\* and no other; of an id that is not there it returns False and changes
\* nothing; no chat row changes.
C25_DeleteExactlyOne ==
    [][Returns("delete_wish") =>
          LET gone == GetWish(wishes, ret'.wish_id) IN
          /\ chatmeta' = chatmeta
          /\ wishes' = wishes \ gone
          /\ ret'.value = (gone # {})
          /\ Cardinality(gone) <= 1]_vars

\* a wish was deleted and the other wish is still there
C25_Witness ==
    /\ ret.op = "delete_wish"
    /\ ret.value = TRUE
    /\ GetWish(wishes, ret.wish_id) = {}
    /\ Cardinality(wishes) = 1

\* the rows list_wishes is asked for: of the chat, with the status and the
\* horizon when one is given
Asked(r) ==
    {w \in wishes : /\ w.chat_id = r.chat_id
                    /\ r.status # NULL => w.status = r.status
                    /\ r.time_horizon # NULL => w.time_horizon = r.time_horizon}

\* C26: the page of list_wishes holds only rows of the chat that pass every
\* given filter, no row twice, at most max(1, limit) rows, and total is the
\* number of all rows of the chat that pass the filters.
C26_ListOnlyMatching ==
    ret.op = "list_wishes" =>
       /\ \A i \in 1..Len(ret.wishes) : ret.wishes[i] \in Asked(ret)
       /\ \A i, j \in 1..Len(ret.wishes) : i # j => ret.wishes[i] # ret.wishes[j]
       /\ Len(ret.wishes) <= (IF ret.limit > 1 THEN ret.limit ELSE 1)
       /\ ret.total = Cardinality(Asked(ret))

\* c1 is listed with its one wish while c2 has a wish too
C26_Witness ==
    /\ ret.op = "list_wishes"
    /\ ret.chat_id = "c1"
    /\ ret.status = NULL
    /\ ret.time_horizon = NULL
    /\ ret.total = 1
    /\ Len(ret.wishes) = 1
    /\ \E w \in wishes : w.chat_id = "c2"

RECURSIVE SumOf(_, _)
SumOf(d, keys) ==
    IF keys = {} THEN 0
    ELSE LET k == CHOOSE x \in keys : TRUE
         IN d[k] + SumOf(d, keys \ {k})

C28_OtherChatUntouched ==
    [][ret'.op \in {"done_command", "delete_command", "wish_callback"} =>
          \A w \in wishes : w.chat_id # ret'.chat_id => w \in wishes']_vars

\* --------------------------------- attendance: settings rows and time zones
\* the hours looked at: 09:00, 19:00 and 03:00 of the next day in Sofia
TimezoneInstants == {7, 17, 25}

\* chats made under different TZ settings; the manager u2 opens /settings,
\* the operator u1 of c1 checks in, the reminder job runs
InitTimezones ==
    /\ QuietFlows
    /\ now = 7
    /\ \E tz \in ChatTimezones :
          chats = <<[chat |-> "c1", timezone |-> tz[1]],
                    [chat |-> "c2", timezone |-> tz[2]]>>
    /\ settings = GlobalDefaults
    /\ memberships = <<Member("u2", "c1", MANAGER, TRUE),
                       Member("u1", "c1", OPERATOR, TRUE),
                       Member("u2", "c2", OPERATOR, TRUE)>>
    /\ checkins = <<>>
    /\ daily_stats = <<>>
    /\ fsm = [u \in Users |-> NoData]
    /\ cpc = [p \in Procs |-> "idle"]
    /\ cloc = [p \in Procs |-> IdleConfirm]
    /\ answer = "none"
    /\ started = "polling"
    /\ apc = [r \in Runs |-> "idle"]
    /\ aloc = [r \in Runs |-> IdleRun]
    /\ sent = {}
    /\ statInputs = <<>>
    /\ QuietJobs

NextTimezones ==
    \/ Clock(TimezoneInstants)
    \/ \E u \in Users : ShowSettings(u)
    \/ \E u \in Users, field \in {"alerts", "weekend"} : ToggleSetting(u, field)
    \/ HandlePhoto("u1")
    \/ \E t \in CheckinType : ConfirmCheck(1, "u1", t)
    \/ ConfirmCommit(1)
    \/ ConfirmFinish(1)
    \/ RemindStart
    \/ RemindForChat
    \/ SendMessage
    \/ RemindEnd

SpecTimezones == InitTimezones /\ [][NextTimezones]_vars

\* every settings row of a chat carries the timezone of its chat
OwnRowsFollowChat ==
    \A i \in DOMAIN settings :
       settings[i].chat # NoChat =>
          settings[i].timezone = ChatRow(settings[i].chat).timezone

\* the local date confirm_checkin stamps on a check-in of chat c now
AcceptanceDate(c) ==
    DateOf(LocalNow(now, IF SettingsOf(c) = <<>> THEN ChatRow(c).timezone
                         ELSE SettingsOf(c)[1].timezone))

\* C29: a settings row of a chat has the timezone of the chat in every
\* state; a check-in is stamped with the date of its chat's timezone, the
\* one the reminder job and the aggregation compute; and a reminder
\* dispatched in the same hour does not list a user whose check-in of the
\* window carries the date an acceptance stamps in that hour.
C29_SettingsTimezoneIsChatTimezone ==
    [][/\ OwnRowsFollowChat
       /\ OwnRowsFollowChat'
       /\ \A r \in Range(checkins') \ Range(checkins) :
             r.checkin_date = DateOf(LocalNow(now, ChatRow(r.chat).timezone))
       /\ (rpc = "chats" /\ rpc' = "send") =>
             \A r \in Range(checkins) :
                (/\ r.chat = rloc'.msg.chat
                 /\ r.type = rloc'.msg.window
                 /\ r.checkin_date = AcceptanceDate(r.chat))
                => r.user \notin Range(rloc'.msg.missing)]_vars

\* c1 was made under TZ UTC-8 and has a settings row; at 01:00 UTC of day 1
\* an evening check-in of c1 is stored with local day 0
C29_Witness ==
    /\ now = 25
    /\ chats # <<>>
    /\ ChatRow("c1").timezone = -8
    /\ SettingsOf("c1") # <<>>
    /\ \E r \in Range(checkins) :
          r.chat = "c1" /\ r.type = EVENING /\ r.checkin_date = 0

\* C30: the reminder job dispatches a reminder only for a chat whose
\* effective settings have alerts_enabled; a job that starts after a manager
\* switched the alerts off sends nothing to the chat.
C30_NoReminderWhenAlertsOff ==
    [][(rpc = "chats" /\ rpc' = "send") =>
          LET eff == GetEffectiveSettings(rloc'.msg.chat)
          IN  eff.status = "row" /\ eff.row.alerts_enabled]_vars

\* -------------------------------------------- claims: rollups and rosters
\* C31: in every rollup each count is at most total_operators, and each
\* count plus the number of users listed as missing for its window is
\* total_operators.
C31_CountsWithinRoster ==
    \A i \in DOMAIN daily_stats :
       LET row == daily_stats[i] IN
       /\ row.morning_cnt <= row.total_operators
       /\ row.evening_cnt <= row.total_operators
       /\ row.morning_cnt + Len(MissList(row, "morning")) = row.total_operators
       /\ row.evening_cnt + Len(MissList(row, "evening")) = row.total_operators

\* ------------------------------------ attendance: one user in two chats
\* u1 is an authorized operator of c1 and of c2, in either table order
TwoChatRosters ==
    { <<Member("u1", "c1", OPERATOR, TRUE), Member("u1", "c2", OPERATOR, TRUE)>>,
      <<Member("u1", "c2", OPERATOR, TRUE), Member("u1", "c1", OPERATOR, TRUE)>> }

\* Friday 07:00 UTC on a running bot; u1 sends photos and confirms through
\* the morning and the evening window, the reminder job runs
InitTwoChats ==
    /\ QuietFlows
    /\ now = 7
    /\ chats = BothChats
    /\ settings = GlobalDefaults
    /\ memberships \in TwoChatRosters
    /\ checkins = <<>>
    /\ daily_stats = <<>>
    /\ fsm = [u \in Users |-> NoData]
    /\ cpc = [p \in Procs |-> "idle"]
    /\ cloc = [p \in Procs |-> IdleConfirm]
    /\ answer = "none"
    /\ started = "polling"
    /\ apc = [r \in Runs |-> "idle"]
    /\ aloc = [r \in Runs |-> IdleRun]
    /\ sent = {}
    /\ statInputs = <<>>
    /\ QuietJobs

NextTwoChats ==
    \/ Clock(RemindInstants)
    \/ HandlePhoto("u1")
    \/ \E t \in CheckinType : ConfirmCheck(1, "u1", t)
    \/ ConfirmCommit(1)
    \/ ConfirmFinish(1)
    \/ RemindStart
    \/ RemindForChat
    \/ SendMessage
    \/ RemindEnd

\* the user keeps sending a photo and confirming while a window is open, and
\* a handler that has started runs to its end
SpecTwoChats ==
    /\ InitTwoChats
    /\ [][NextTwoChats]_vars
    /\ SF_vars(HandlePhoto("u1"))
    /\ \A t \in CheckinType : SF_vars(ConfirmCheck(1, "u1", t))
    /\ WF_vars(ConfirmCommit(1))
    /\ WF_vars(ConfirmFinish(1))

\* C32: a user who is authorized in c1 and in c2 and keeps confirming while
\* the windows are open gets a check-in stored for each of the two chats.
C32_CheckinForEachChat ==
    \A c \in Chats :
       <>(\E r \in Range(checkins) : r.user = "u1" /\ r.chat = c)

\* ------------------------------------------------- auth.py: the dialogue
\* CAPTCHA_VARIANTS and the sums start_captcha can store
CAPTCHA_VARIANTS == {<<3, 4>>, <<5, 7>>, <<2, 9>>}

\* the numbers a callback auth:capture:<value>:<expected> may carry
CaptchaValues == {7, 8, 12}

\* start_authorization: /start <payload> of u in the private chat; c is the
\* chat the payload decodes to, NoChat when there is none
StartAuthorization(u, c) ==
    /\ started = "polling"
    /\ authfsm' = [authfsm EXCEPT ![u].target_chat_id = c,
                                  ![u].state = "waiting_for_method"]
    /\ authfsm' # authfsm
    /\ UNCHANGED <<now, chats, memberships, settings, checkins, daily_stats,
                   fsm, cpc, cloc, answer, started, apc, aloc, sent,
                   statInputs, remindVars, wishVars, picked, ensureVars,
                   addVars>>

\* start_captcha: the callback auth:captcha of u; variant is the pair that
\* random.choice returns
StartCaptcha(u, variant) ==
    /\ started = "polling"
    /\ LET result == variant[1] + variant[2] IN
          authfsm' = [authfsm EXCEPT ![u].state = "waiting_for_captcha",
                                     ![u].captcha_answer = result]
    /\ authfsm' # authfsm
    /\ UNCHANGED <<now, chats, memberships, settings, checkins, daily_stats,
                   fsm, cpc, cloc, answer, started, apc, aloc, sent,
                   statInputs, remindVars, wishVars, picked, ensureVars,
                   addVars>>

\* _persist_authorization: the memberships table after it
PersistAuthorization(u, c) ==
    IF MembershipIndex(u, c) = {}
    THEN Append(memberships, [user |-> u, chat |-> c,
                              role |-> OPERATOR, authorized |-> TRUE])
    ELSE [i \in DOMAIN memberships |->
            IF i \in MembershipIndex(u, c)
            THEN [memberships[i] EXCEPT !.authorized = TRUE]
            ELSE memberships[i]]

\* validate_captcha: the callback auth:capture:<value>:<expected> of u
ValidateCaptcha(u, value, expected) ==
    /\ started = "polling"
    /\ picked' = [user |-> u, value |-> value, expected |-> expected]
    /\ LET chat_id == authfsm[u].target_chat_id IN
          IF chat_id = NoChat \/ value # expected
          THEN UNCHANGED <<chats, memberships, authfsm, fsm>>
          ELSE /\ \/ MembershipIndex(u, chat_id) # {}
                  \/ Len(memberships) < MaxMemberships
               /\ chats' = ChatsWith(chat_id)
               /\ memberships' = PersistAuthorization(u, chat_id)
               /\ authfsm' = [authfsm EXCEPT ![u] = NoAuth]
               /\ fsm' = [fsm EXCEPT ![u] = NoData]
    /\ UNCHANGED <<now, settings, checkins, daily_stats, cpc, cloc, answer,
                   started, apc, aloc, sent, statInputs, remindVars,
                   wishVars, ensureVars, addVars>>

\* Friday 07:00 UTC, a running bot with an empty database: u1 goes through
\* the authorization dialogue for c1 and c2, an administrator of c1 gives
\* u1 a role, u1 sends photos and confirms the morning check-in
InitAuthorization ==
    /\ now = 7
    /\ chats = <<>>
    /\ memberships = <<>>
    /\ settings = GlobalDefaults
    /\ checkins = <<>>
    /\ daily_stats = <<>>
    /\ fsm = [u \in Users |-> NoData]
    /\ cpc = [p \in Procs |-> "idle"]
    /\ cloc = [p \in Procs |-> IdleConfirm]
    /\ answer = "none"
    /\ started = "polling"
    /\ apc = [r \in Runs |-> "idle"]
    /\ aloc = [r \in Runs |-> IdleRun]
    /\ sent = {}
    /\ statInputs = <<>>
    /\ QuietJobs
    /\ QuietFlows

NextAuthorization ==
    \/ \E c \in Chats \cup {NoChat} : StartAuthorization("u1", c)
    \/ \E variant \in CAPTCHA_VARIANTS : StartCaptcha("u1", variant)
    \/ \E value, expected \in CaptchaValues :
          ValidateCaptcha("u1", value, expected)
    \/ SetRole("u1", "c1", MANAGER)
    \/ HandlePhoto("u1")
    \/ ConfirmCheck(1, "u1", MORNING)
    \/ ConfirmCommit(1)
    \/ ConfirmFinish(1)

SpecAuthorization == InitAuthorization /\ [][NextAuthorization]_vars

\* u holds a membership of chat c with authorized = true
HoldsAuthorized(u, c) ==
    \E m \in Range(memberships) : m.user = u /\ m.chat = c /\ m.authorized

\* C33: every stored Checkin, and every Checkin a confirm is about to
\* store, belongs to a user who holds an authorized membership of the
\* Checkin's chat; a user without one gets nothing stored.
C33_CheckinsByAuthorized ==
    /\ \A r \in Range(checkins) : HoldsAuthorized(r.user, r.chat)
    /\ \A p \in Procs :
          cpc[p] = "commit" => HoldsAuthorized(cloc[p].user, cloc[p].chat)

\* a Checkin of u1 is stored while u1 also holds a membership that is not
\* authorized
C33_Witness ==
    /\ \E r \in Range(checkins) : r.user = "u1"
    /\ \E m \in Range(memberships) : m.user = "u1" /\ ~m.authorized

\* (u, c) has no authorized membership before the step and has one after it
NewlyAuthorized(u, c) ==
    /\ ~HoldsAuthorized(u, c)
    /\ \E m \in Range(memberships') :
          m.user = u /\ m.chat = c /\ m.authorized

\* C34: a step that authorizes a membership by captcha is taken while the
\* user's captcha is pending and with the value that start_captcha stored.
C34_CaptchaAnswerDecides ==
    [][\A u \in Users, c \in Chats :
          NewlyAuthorized(u, c) =>
             /\ authfsm[u].state = "waiting_for_captcha"
             /\ picked'.value = authfsm[u].captcha_answer]_vars

\* ------------------------- settings rows: handlers and start-ups in steps
\* on_startup of bot process b, lines 68-71: the select of the global row
StartupSelect(b) ==
    /\ bpc[b] = "idle"
    /\ IF SettingsOf(NoChat) = <<>>
       THEN /\ bpc' = [bpc EXCEPT ![b] = "insert"]
            /\ UNCHANGED started
       ELSE /\ bpc' = [bpc EXCEPT ![b] = "done"]
            /\ started' = "polling"
    /\ UNCHANGED <<now, chats, memberships, settings, checkins, daily_stats,
                   fsm, cpc, cloc, answer, apc, aloc, sent, statInputs,
                   remindVars, wishVars, authfsm, picked, spc, sloc, addVars>>

\* on_startup of bot process b, lines 72-85: session.add of the global
\* row and commit; polling starts afterwards
StartupInsert(b) ==
    /\ bpc[b] = "insert"
    /\ settings' = Append(settings, DefaultSettings(NoChat, ConfigTimezone))
    /\ bpc' = [bpc EXCEPT ![b] = "done"]
    /\ started' = "polling"
    /\ UNCHANGED <<now, chats, memberships, checkins, daily_stats,
                   fsm, cpc, cloc, answer, apc, aloc, sent, statInputs,
                   remindVars, wishVars, authfsm, picked, spc, sloc, addVars>>

\* /settings of manager u handled as invocation p: show_settings up to the
\* select of _ensure_chat_settings (settings.py:22-39, 89-93), which finds
\* no row of the chat
SettingsSelect(p, u) ==
    /\ started = "polling"
    /\ spc[p] = "idle"
    /\ FirstMembership(u) # <<>>
    /\ LET m == FirstMembership(u)[1] IN
          /\ m.role = MANAGER
          /\ SettingsOf(m.chat) = <<>>
          /\ sloc' = [sloc EXCEPT ![p] = m.chat]
    /\ spc' = [spc EXCEPT ![p] = "insert"]
    /\ UNCHANGED <<now, chats, memberships, settings, checkins, daily_stats,
                   fsm, cpc, cloc, answer, started, apc, aloc, sent,
                   statInputs, remindVars, wishVars, authfsm, picked, bpc,
                   addVars>>

\* _ensure_chat_settings, lines 94-106: session.add of the row and commit
SettingsInsert(p) ==
    /\ spc[p] = "insert"
    /\ settings' = Append(settings,
                          DefaultSettings(sloc[p], ChatRow(sloc[p]).timezone))
    /\ spc' = [spc EXCEPT ![p] = "idle"]
    /\ sloc' = [sloc EXCEPT ![p] = NoChat]
    /\ UNCHANGED <<now, chats, memberships, checkins, daily_stats,
                   fsm, cpc, cloc, answer, started, apc, aloc, sent,
                   statInputs, remindVars, wishVars, authfsm, picked, bpc,
                   addVars>>

\* the managers of the chats
ManagerRosters ==
    { <<Member("u1", "c1", MANAGER, TRUE), Member("u2", "c1", MANAGER, TRUE)>>,
      <<Member("u1", "c1", MANAGER, TRUE), Member("u2", "c2", MANAGER, TRUE)>>,
      <<Member("u1", "c2", MANAGER, TRUE), Member("u2", "c2", OPERATOR, TRUE)>> }

\* two bot processes start on one database (a rolling restart) whose
\* settings table is empty or already holds the global row; managers send
\* /settings and toggle settings, two /settings updates may be in flight
InitEnsure ==
    /\ now = 7
    /\ chats = BothChats
    /\ memberships \in ManagerRosters
    /\ settings \in {<<>>, GlobalDefaults}
    /\ checkins = <<>>
    /\ daily_stats = <<>>
    /\ fsm = [u \in Users |-> NoData]
    /\ cpc = [p \in Procs |-> "idle"]
    /\ cloc = [p \in Procs |-> IdleConfirm]
    /\ answer = "none"
    /\ started = "down"
    /\ apc = [r \in Runs |-> "idle"]
    /\ aloc = [r \in Runs |-> IdleRun]
    /\ sent = {}
    /\ statInputs = <<>>
    /\ QuietJobs
    /\ QuietFlows

NextEnsure ==
    \/ \E b \in Runs : StartupSelect(b)
    \/ \E b \in Runs : StartupInsert(b)
    \/ \E p \in Procs, u \in Users : SettingsSelect(p, u)
    \/ \E p \in Procs : SettingsInsert(p)
    \/ \E u \in Users, field \in {"alerts", "weekend"} : ToggleSetting(u, field)

SpecEnsure == InitEnsure /\ [][NextEnsure]_vars

\* C35: the settings table holds at most one row per chat and at most one
\* global default row, so a lookup of the rows of a chat finds zero or one.
C35_OneSettingsRowPerChat ==
    \A c \in Chats \cup {NoChat} : Len(SettingsOf(c)) <= 1

\* ------------------------------------------- wishlist bot: the add flow
ASK_TITLE == "ASK_TITLE"
DETAILS == "DETAILS"

\* texts a user may send as the title: blank, or a title
TitleTexts == {"", "gift"}

\* what the Telegram calls of a handler do: all succeed (a BadRequest is
\* swallowed by the handlers), the edit of the draft message raises another
\* error, the send of the wish card raises
ApiOutcomes == {"ok", "edit_error", "send_error"}

\* add_entry: /add or the add button of user u in chat c
AddEntry(c, u) ==
    /\ chatmeta' = GetOrInit(chatmeta, c, DefaultTzName, now)
    /\ draft' = [draft EXCEPT ![u] =
                    [chat_id |-> c, title |-> NULL, time_horizon |-> NULL,
                     message_chat_id |-> NoChat, saved |-> 0]]
    /\ conv' = [conv EXCEPT ![<<c, u>>] = ASK_TITLE]
    /\ ret' = [op |-> "add_entry", chat |-> c, user |-> u]
    /\ UNCHANGED <<now, attendanceVars, metas, ppc, ploc, summaries, wishes,
                   authfsm, picked, ensureVars, previews>>

\* add_receive_title: u replies with text to the bot's question in chat c
\* while the conversation of (c, u) is in ASK_TITLE
AddReceiveTitle(c, u, text) ==
    /\ conv[<<c, u>>] = ASK_TITLE
    /\ IF draft[u] = NoRow
       THEN /\ conv' = [conv EXCEPT ![<<c, u>>] = END]
            /\ UNCHANGED <<draft, previews>>
       ELSE IF text = ""
       THEN UNCHANGED <<draft, conv, previews>>
       ELSE /\ draft' = [draft EXCEPT ![u].title = text,
                                      ![u].message_chat_id = c]
            /\ conv' = [conv EXCEPT ![<<c, u>>] = DETAILS]
            /\ previews' = previews \cup {<<c, u>>}
    /\ ret' = [op |-> "add_receive_title", chat |-> c, user |-> u]
    /\ UNCHANGED <<now, attendanceVars, metas, ppc, ploc, summaries, wishes,
                   chatmeta, authfsm, picked, ensureVars>>

\* what add_callback reports when it stores nothing
NoWishMade(c, u, action) ==
    [op |-> "add_callback", chat |-> c, user |-> u, action |-> action,
     created |-> FALSE]

\* add_callback: u taps the button ADD:<action> of a draft keyboard in chat
\* c (a keyboard that was removed may still have a tap in flight); api is
\* what the Telegram calls of the handler do
AddCallback(c, u, action, api) ==
    /\ <<c, u>> \in previews
    /\ IF draft[u] = NoRow
       THEN /\ ret' = NoWishMade(c, u, action)
            /\ UNCHANGED <<wishes, chatmeta, draft, conv>>
       ELSE IF action = "WHEN"
       THEN /\ draft' = [draft EXCEPT ![u].time_horizon = "this_month"]
            /\ ret' = NoWishMade(c, u, action)
            /\ UNCHANGED <<wishes, chatmeta, conv>>
       ELSE IF action = "CANCEL"
       THEN /\ ret' = NoWishMade(c, u, action)
            /\ IF api = "edit_error" /\ draft[u].message_chat_id # NoChat
               THEN UNCHANGED <<draft, conv>>
               ELSE /\ draft' = [draft EXCEPT ![u] = NoRow]
                    /\ conv' = [conv EXCEPT ![<<c, u>>] = END]
            /\ UNCHANGED <<wishes, chatmeta>>
       ELSE IF draft[u].title = NULL
       THEN /\ ret' = NoWishMade(c, u, action)
            /\ UNCHANGED <<wishes, chatmeta, draft, conv>>
       ELSE /\ Cardinality(wishes) < MaxWishes
            /\ LET chat_id == draft[u].chat_id
                   wish == [id |-> NextWishId(wishes), chat_id |-> chat_id,
                            status |-> "open",
                            time_horizon |-> draft[u].time_horizon,
                            created_at |-> now, done_at |-> NoTime]
               IN /\ wishes' = wishes \cup {wish}
                  /\ chatmeta' =
                        IF chatmeta[chat_id] # NoRow
                        THEN [chatmeta EXCEPT ![chat_id] =
                                 [@ EXCEPT !.last_added_at = now]]
                        ELSE chatmeta
                  /\ ret' = [op |-> "add_callback", chat |-> c, user |-> u,
                             action |-> action, created |-> TRUE,
                             value |-> wish,
                             title_chat |-> draft[u].message_chat_id]
                  /\ IF api = "edit_error" /\ draft[u].message_chat_id # NoChat
                     THEN /\ draft' = [draft EXCEPT ![u].saved = @ + 1]
                          /\ UNCHANGED conv
                     ELSE /\ draft' = [draft EXCEPT ![u] = NoRow]
                          /\ conv' = IF api = "send_error" THEN conv
                                     ELSE [conv EXCEPT ![<<chat_id, u>>] = END]
    /\ UNCHANGED <<now, attendanceVars, metas, ppc, ploc, summaries,
                   authfsm, picked, ensureVars, previews>>

\* the wishlist bot on a new database; u1 uses the add flow in c1 and c2
InitAdd ==
    /\ now = 1
    /\ EmptyStore
    /\ NoOtherProgram
    /\ QuietFlows

NextAdd ==
    \/ \E c \in Chats : AddEntry(c, "u1")
    \/ \E c \in Chats, text \in TitleTexts : AddReceiveTitle(c, "u1", text)
    \/ \E c \in Chats, action \in {"WHEN", "SAVE", "CANCEL"},
          api \in ApiOutcomes : AddCallback(c, "u1", action, api)

SpecAdd == InitAdd /\ [][NextAdd]_vars

\* C36: a wish made by SAVE, tapped in the chat in which the title of the
\* draft was entered, is stored in that chat.
C36_StoredWhereSaved ==
    (/\ ret.op = "add_callback"
     /\ ret.created
     /\ ret.title_chat = ret.chat) => ret.value.chat_id = ret.chat

\* C37: a step of the add flow stores a wish only from a draft that has a
\* title and has stored none yet, and then removes the draft and ends the
\* conversation of the user in that chat; a CANCEL that removes the draft
\* ends the conversation; an ADD callback without a draft changes no wish.
C37_OneWishPerDraft ==
    [][\A u \in Users :
          /\ (wishes' # wishes /\ ret'.user = u) =>
                /\ draft[u] # NoRow
                /\ draft[u].title # NULL /\ draft[u].title # ""
                /\ draft[u].saved = 0
                /\ draft'[u] = NoRow
                /\ conv'[<<ret'.chat, u>>] = END
          /\ (/\ ret'.op = "add_callback"
              /\ ret'.user = u
              /\ ret'.action = "CANCEL"
              /\ draft[u] # NoRow
              /\ draft'[u] = NoRow) => conv'[<<ret'.chat, u>>] = END
          /\ (ret'.op = "add_callback" /\ ret'.user = u /\ draft[u] = NoRow)
                => wishes' = wishes]_vars

====
